---- MODULE Spec2Model ----
(***************************************************************************)
(* A model of the command-mediation layer of src/jove.py: the per-view     *)
(* interaction state (ViewState), the command hooks of CmdWatcher and      *)
(* ViewWatcher, the prefix-argument accumulator, sbp_do_times and the      *)
(* move-then-delete (kill) transaction, sbp_kill_region and sbp_yank, and  *)
(* the commands and callbacks that close views of the window.              *)
(*                                                                         *)
(* The host editor dispatches one command at a time in three phases:       *)
(* on_text_command (pre-dispatch), the command itself, and                 *)
(* on_post_text_command (post-dispatch).  The command the host runs and    *)
(* reports to post-dispatch is the one on_text_command returned, or the    *)
(* incoming one when it returned None.  A command that a running command   *)
(* issues itself (window.run_command inside sbp_do_times, the command      *)
(* re-issued by sbp_inc_search_escape, the motion of a kill) is run as     *)
(* part of that command: it is not a dispatch of its own.                  *)
(***************************************************************************)
EXTENDS Integers, Sequences, FiniteSets, TLC

VARIABLES
    vs,          \* ViewState of the view: the fields jove.py reads and writes
    isearch,     \* TRUE while an incremental-search session is open for the view
    status,      \* the JOVE_STATUS message of the view ("" when erased)
    pc,          \* phase of the current dispatch: "idle", "exec" or "post"
    orig,        \* the command as it arrived at on_text_command
    cur,         \* the command the host runs: the rewritten one, or orig
    pre,         \* what on_text_command saw (argument, active_mark, isearch, last_cmd,
                 \* mark ring, selection) and the this_cmd and drag_count it left
    ran,         \* the native commands the host has run in this dispatch, in order
    timers,      \* callbacks scheduled with sublime.set_timeout and not yet fired
    timer_ran,   \* the native commands run by the timer callback that fired last
    tokens,      \* the sbp_universal_argument values fed since the accumulator was last reset
    prev_count,  \* get_count() just before the last of these values was fed
    text,        \* the buffer: a sequence of characters
    sel,         \* the view's selection: regions <<a, b>> ordered by position
    kill_ring,   \* the kill_ring.add calls made so far, in order
    kill_index,  \* the kill ring's current position: how many entries back from
                 \* the newest the entry lies that the next yank gives
    kill,        \* what the last MoveThenDeleteHelper.finish saw and did
    ran_open,    \* for each entry of ran: was a search session open when it ran
    panel,       \* the input panel of a command that asks for a character, if shown
    notes,       \* the selection notifications since pre-dispatch: the number of
                 \* regions and the this_cmd each of them found
    win,         \* the window: its views, the active one, its layout, the deferred
                 \* checks of on_window_command, the dedups pending after a save,
                 \* and the window event seen last with what it closed
    center       \* the class attributes of SbpCenterViewCommand, with what its
                 \* last cycling run found and how the view was scrolled last

vars == <<vs, isearch, status, pc, orig, cur, pre, ran, timers, timer_ran,
          tokens, prev_count, text, sel, kill_ring, kill_index, kill, ran_open, panel, notes,
          win, center>>

-----------------------------------------------------------------------------
(* Bounds of the model.                                                    *)

\* most sbp_universal_argument values fed to one prefix argument
MaxTokens == 2
\* the same, in the specification of the whole pipeline
MaxPrefixKeys == 2
\* most callbacks outstanding at once
MaxTimers == 1
\* drag_count stops being observed beyond this
MaxDrag == 4
\* most entries the mark ring holds
MaxRing == 2
\* most characters of the buffer
BufLen == 5
\* most cursors of a kill transaction
MaxCursors == 2
\* most kill_ring.add calls recorded
MaxKills == 1
\* views in the window
MaxViews == 3
\* buffers the views of a window with duplicates show
MaxBuffers == 2
\* most callbacks of on_post_save outstanding at once
MaxSaves == 2
\* most characters the yanks may have added to the buffer before another
MaxYanked == 2
\* most groups (panes) of the window's layout
MaxGroups == 2

-----------------------------------------------------------------------------
(* Command arguments: a dict is a function from its keys.                  *)

None == "None"

NoArgs == [k \in {} |-> TRUE]

Has(args, k) == k \in DOMAIN args

\* dict.get(k, default)
Get(args, k, default) == IF k \in DOMAIN args THEN args[k] ELSE default

\* args[k] = v
Put(args, k, v) == [j \in DOMAIN args \cup {k} |-> IF j = k THEN v ELSE args[j]]

\* the dict without the keys in ks
Without(args, ks) == [j \in DOMAIN args \ ks |-> args[j]]

Invocation(cmd, args) == [cmd |-> cmd, args |-> args]

Abs(n) == IF n < 0 THEN -n ELSE n

repeatable_cmds == {"move", "left_delete", "right_delete", "undo", "redo"}

\* the commands of this package: cmd.startswith("sbp_")
SbpCmds ==
    {"sbp_do_times", "sbp_universal_argument", "sbp_swap_point_and_mark",
     "sbp_inc_search", "sbp_inc_search_escape", "sbp_move_then_delete",
     "sbp_move_word", "sbp_set_mark", "sbp_zap_to_char",
     "sbp_finish_move_then_delete", "sbp_kill_region", "sbp_yank",
     "sbp_cancel_mark", "sbp_center_view", "sbp_case_region"}

IsSbp(cmd) == cmd \in SbpCmds

\* native commands that change the buffer when there is something to change
ModifyingCmds == {"left_delete", "right_delete", "undo", "redo"}

\* native commands that move the cursors
MotionCmds == {"move", "move_to"}

-----------------------------------------------------------------------------
(* ViewState and CmdUtil (sublemacspro.lib.misc).                          *)

\* ViewState.get_count: the accumulated value, 1 when no argument was
\* supplied; a leading "negative" makes it negative, -1 when no digit followed
get_count(v) ==
    IF ~v.argument_supplied THEN 1
    ELSE IF v.argument_negative
         THEN (IF v.argument_value = 0 THEN -1 ELSE -v.argument_value)
         ELSE v.argument_value

\* CmdUtil.toggle_active_mark_mode(value): sets active_mark, flips it when
\* value is None; the selection keeps its shape
toggle_active_mark_mode(v, value) ==
    [v EXCEPT !.active_mark = IF value = None THEN ~v.active_mark ELSE value = "True"]

\* MarkRing.set / CmdUtil.set_mark: push a cursor set, the oldest entry goes
\* when the ring is full
push_mark(v, cursors) ==
    [v EXCEPT !.mark_ring =
        IF Len(v.mark_ring) < MaxRing THEN Append(@, cursors)
        ELSE Append(Tail(@), cursors)]

\* CmdUtil.get_regions: each cursor paired with its mark as a region
get_regions(v, s) ==
    IF v.mark_ring = <<>> THEN s
    ELSE LET marks == v.mark_ring[Len(v.mark_ring)]
         IN [i \in 1..Len(s) |->
                IF i <= Len(marks) THEN <<marks[i][1], s[i][2]>> ELSE s[i]]

\* SbpTextCommand.run, before run_cmd: a command of the package records itself
sbp_enter(v, cmd) == [v EXCEPT !.this_cmd = cmd]

\* SbpTextCommand.run, after run_cmd: reset the argument and remember the
\* command, except for the command that builds the argument
sbp_leave(v, cmd) ==
    IF cmd = "sbp_universal_argument" THEN v
    ELSE [v EXCEPT !.argument_value = 0, !.argument_supplied = FALSE,
                   !.last_cmd = v.this_cmd]

-----------------------------------------------------------------------------
(* SbpUniversalArgumentCommand.run_cmd: the prefix-argument accumulator.   *)

DigitTokens == {"0", "1", "2", "3", "4", "5", "6", "7", "8", "9"}

ArgTokens == DigitTokens \cup {"by_four", "negative"}

\* isinstance(value, int)
IsInt(value) == value \in DigitTokens

\* the integer a digit key's binding passes as value
IntOf(value) ==
    CASE value = "0" -> 0 [] value = "1" -> 1 [] value = "2" -> 2
      [] value = "3" -> 3 [] value = "4" -> 4 [] value = "5" -> 5
      [] value = "6" -> 6 [] value = "7" -> 7 [] value = "8" -> 8
      [] value = "9" -> 9

\* a faulty accumulator: a later digit is added, not appended in base 10
universal_argument_sums_digits(v, value) ==
    IF ~v.argument_supplied
    THEN IF value = "by_four"
         THEN [v EXCEPT !.argument_supplied = TRUE, !.argument_value = 4]
         ELSE IF value = "negative"
         THEN [v EXCEPT !.argument_supplied = TRUE, !.argument_negative = TRUE]
         ELSE [v EXCEPT !.argument_supplied = TRUE, !.argument_value = IntOf(value)]
    ELSE IF value = "by_four"
         THEN [v EXCEPT !.argument_value = @ * 4]
    ELSE IF IsInt(value)
         THEN [v EXCEPT !.argument_value = @ + IntOf(value)]
    ELSE IF value = "negative"
         THEN [v EXCEPT !.argument_value = -@]
    ELSE v

\* a faulty accumulator: a later "by_four" sets the value to 4 again
universal_argument_by_four_once(v, value) ==
    IF ~v.argument_supplied
    THEN IF value = "by_four"
         THEN [v EXCEPT !.argument_supplied = TRUE, !.argument_value = 4]
         ELSE IF value = "negative"
         THEN [v EXCEPT !.argument_supplied = TRUE, !.argument_negative = TRUE]
         ELSE [v EXCEPT !.argument_supplied = TRUE, !.argument_value = IntOf(value)]
    ELSE IF value = "by_four"
         THEN [v EXCEPT !.argument_value = 4]
    ELSE IF IsInt(value)
         THEN [v EXCEPT !.argument_value = @ * 10 + IntOf(value)]
    ELSE IF value = "negative"
         THEN [v EXCEPT !.argument_value = -@]
    ELSE v

\* lines 664-680
universal_argument(v, value) ==
    IF ~v.argument_supplied
    THEN IF value = "by_four"
         THEN [v EXCEPT !.argument_supplied = TRUE, !.argument_value = 4]
         ELSE IF value = "negative"
         THEN [v EXCEPT !.argument_supplied = TRUE, !.argument_negative = TRUE]
         ELSE [v EXCEPT !.argument_supplied = TRUE, !.argument_value = IntOf(value)]
    ELSE IF value = "by_four"
         THEN [v EXCEPT !.argument_value = @ * 4]
    ELSE IF IsInt(value)
         THEN [v EXCEPT !.argument_value = @ * 10 + IntOf(value)]
    ELSE IF value = "negative"
         THEN [v EXCEPT !.argument_value = -@]
    ELSE v

-----------------------------------------------------------------------------
(* CmdWatcher: the hooks around every text command.                        *)

\* a faulty rewrite: the motion is passed on as it arrived
extend_rewrite_as_is(cmd, args) == Invocation(cmd, args)

\* lines 130-134: a motion under active mark gets extend=True
extend_rewrite(cmd, args) == Invocation(cmd, Put(args, "extend", TRUE))

\* a faulty rewrite: the forward flag is kept under a negative count
repeat_rewrite_keeps_forward(cmd, args, count) ==
    Invocation("sbp_do_times", Put(Put(args, "cmd", cmd), "_times", Abs(count)))

\* lines 140-148: a repeatable command becomes sbp_do_times
repeat_rewrite(cmd, args, count) ==
    LET a1 == Put(Put(args, "cmd", cmd), "_times", Abs(count))
        a2 == IF count < 0 /\ Has(a1, "forward")
              THEN Put(a1, "forward", ~a1["forward"]) ELSE a1
    IN Invocation("sbp_do_times", a2)

\* a faulty rewrite: the sign of the count is lost
scroll_rewrite_unsigned(cmd, args, count) ==
    Invocation(cmd, Put(args, "amount", args["amount"] * Abs(count)))

\* lines 149-151: scroll_lines scrolls count times as far
scroll_rewrite(cmd, args, count) ==
    Invocation(cmd, Put(args, "amount", args["amount"] * count))

\* lines 98-101: an open search session takes every foreign command
escape_rewrite(cmd, args) ==
    IF cmd \notin {"sbp_inc_search", "sbp_inc_search_escape"}
    THEN <<Invocation("sbp_inc_search_escape",
                      [next_cmd |-> cmd, next_args |-> args])>>
    ELSE <<>>

\* on_text_command: the ViewState it leaves, whether it erased the status,
\* and what it returns: <<>> for None, <<the rewritten command>> otherwise
on_text_command(v, srch, cmd, args) ==
    IF srch
    THEN [vs |-> v, erase |-> FALSE, ret |-> escape_rewrite(cmd, args)]
    ELSE LET v1 == IF ~IsSbp(cmd) THEN [v EXCEPT !.this_cmd = cmd] ELSE v
             v2 == IF cmd = "drag_select"
                   THEN [v1 EXCEPT !.drag_count = IF Has(args, "by") THEN 2 ELSE 0]
                   ELSE v1
         IN [vs |-> v2, erase |-> TRUE, ret |->
               IF cmd \in {"move", "move_to"} /\ v2.active_mark
                    /\ ~Get(args, "extend", FALSE)
               THEN <<extend_rewrite(cmd, args)>>
               ELSE IF ~v2.argument_supplied THEN <<>>
               ELSE IF cmd \in repeatable_cmds
               THEN <<repeat_rewrite(cmd, args, get_count(v2))>>
               ELSE IF cmd = "scroll_lines"
               THEN <<scroll_rewrite(cmd, args, get_count(v2))>>
               ELSE <<>>]

\* a faulty post-dispatch: context_menu ends the drag like any command
post_drag_any_cmd(v, cmd) ==
    IF v.active_mark /\ v.this_cmd # "drag_select" /\ v.last_cmd = "drag_select"
    THEN toggle_active_mark_mode(v, "False") ELSE v

\* lines 159-162: a finished mouse drag turns active mark mode off
post_drag(v, cmd) ==
    IF v.active_mark /\ v.this_cmd # "drag_select" /\ v.last_cmd = "drag_select"
         /\ cmd # "context_menu"
    THEN toggle_active_mark_mode(v, "False") ELSE v

\* a faulty reset: the argument outlives the command
post_reset_keeps_argument(v, cmd) ==
    IF ~IsSbp(cmd) THEN [v EXCEPT !.last_cmd = cmd] ELSE v

\* a faulty post-dispatch: last_cmd is copied from the field this_cmd
post_reset_from_this_cmd(v, cmd) ==
    IF ~IsSbp(cmd)
    THEN [v EXCEPT !.argument_value = 0, !.argument_supplied = FALSE,
                   !.last_cmd = v.this_cmd]
    ELSE v

\* a faulty post-dispatch: the reset is done for every command
post_reset_every_cmd(v, cmd) ==
    [v EXCEPT !.argument_value = 0, !.argument_supplied = FALSE, !.last_cmd = cmd]

\* lines 165-168: reset the numeric argument
post_reset(v, cmd) ==
    IF ~IsSbp(cmd)
    THEN [v EXCEPT !.argument_value = 0, !.argument_supplied = FALSE,
                   !.last_cmd = cmd]
    ELSE v

on_post_text_command(v, cmd) == post_reset(post_drag(v, cmd), cmd)

\* a faulty handler: the mark goes to the end point of the region
on_selection_modified_marks_b(v, n, region) ==
    LET v1 == IF n = 1 /\ v.this_cmd = "drag_select"
              THEN IF v.drag_count = 2
                   THEN toggle_active_mark_mode(
                            push_mark(v, <<<<region[2], region[2]>>>>), "True")
                   ELSE IF v.drag_count = 0
                   THEN toggle_active_mark_mode(v, "False")
                   ELSE v
              ELSE v
    IN [v1 EXCEPT !.drag_count = @ + 1]

\* a faulty handler: only the notifications of a drag with one region count
on_selection_modified_counts_drags(v, n, region) ==
    IF n = 1 /\ v.this_cmd = "drag_select"
    THEN LET v1 == IF v.drag_count = 2
                   THEN toggle_active_mark_mode(
                            push_mark(v, <<<<region[1], region[1]>>>>), "True")
                   ELSE IF v.drag_count = 0
                   THEN toggle_active_mark_mode(v, "False")
                   ELSE v
         IN [v1 EXCEPT !.drag_count = @ + 1]
    ELSE v

\* a faulty handler: active mark comes on one notification early
on_selection_modified_early(v, n, region) ==
    LET v1 == IF n = 1 /\ v.this_cmd = "drag_select"
              THEN IF v.drag_count \in {1, 2}
                   THEN toggle_active_mark_mode(
                            push_mark(v, <<<<region[1], region[1]>>>>), "True")
                   ELSE IF v.drag_count = 0
                   THEN toggle_active_mark_mode(v, "False")
                   ELSE v
              ELSE v
    IN [v1 EXCEPT !.drag_count = @ + 1]

\* on_selection_modified, with n regions in the selection, the first <<a, b>>
on_selection_modified(v, n, region) ==
    LET v1 == IF n = 1 /\ v.this_cmd = "drag_select"
              THEN IF v.drag_count = 2
                   THEN toggle_active_mark_mode(
                            push_mark(v, <<<<region[1], region[1]>>>>), "True")
                   ELSE IF v.drag_count = 0
                   THEN toggle_active_mark_mode(v, "False")
                   ELSE v
              ELSE v
    IN [v1 EXCEPT !.drag_count = @ + 1]

\* a faulty pair of handlers: ViewWatcher.on_modified does nothing
on_modified_keeps_mark(v) == [v EXCEPT !.this_cmd = None]

\* ViewWatcher.on_modified and CmdWatcher.on_modified
on_modified(v) == [toggle_active_mark_mode(v, "False") EXCEPT !.this_cmd = None]

-----------------------------------------------------------------------------
(* The window and the search session.  isearch_info_for gives the session  *)
(* of the window a view belongs to; the commands of this model run in one  *)
(* view, TheView, so a session is always that view's.                      *)

TheView == 1

Views == 1..MaxViews

\* CmdWatcher.on_window_command, lines 85-92: with a session open the
\* check is scheduled; the check keeps the session it saw, here its view
on_window_command(checks, open) ==
    IF open THEN Append(checks, TheView) ELSE checks

\* a faulty check: the session is ended wherever the window is
check_any_view(open, info_view, active_view) == FALSE

\* check of on_window_command, lines 88-90, when the timer fires
check(open, info_view, active_view) ==
    IF active_view # info_view THEN FALSE ELSE open

\* SbpPaneCmdCommand.run_cmd, lines 867-877, on the layout l: the number of
\* groups, the group with the focus and the size of that group.  split
\* (lines 929-975) adds a group and goes there unless the panes would get
\* too small, grow (lines 882-924) resizes, destroy (lines 982-1008) takes
\* the group away, move (lines 1011-1036) takes the focus to the next group
pane_cmd(l, cmd) ==
    CASE cmd = "split" ->
           IF l.groups < MaxGroups
           THEN [l EXCEPT !.groups = @ + 1, !.group = l.groups] ELSE l
      [] cmd = "grow" ->
           IF l.groups = 1 THEN l ELSE [l EXCEPT !.size = 1 - @]
      [] cmd = "destroy" ->
           IF l.groups = 1 THEN l
           ELSE [l EXCEPT !.groups = @ - 1, !.group = IF @ > 0 THEN @ - 1 ELSE 0,
                        !.size = 0]
      [] cmd \in {"move", "switch_tab"} ->
           [l EXCEPT !.group = IF @ + 1 >= l.groups THEN 0 ELSE @ + 1]
      [] OTHER -> l

\* a faulty handler: the search panel taking the focus ends the search
on_activated_async_any(open, is_widget) == FALSE

\* ViewWatcher.on_activated_async, lines 31-35
on_activated_async(open, is_widget) ==
    IF open /\ ~is_widget THEN FALSE ELSE open

-----------------------------------------------------------------------------
(* The views of the window wn.  wn.views is window.views(): the open views *)
(* in tab order, each with its id, its buffer and its group; wn.dirty is   *)
(* the set of buffers with unsaved changes; wn.focus gives each group its  *)
(* active view, 0 for a group without views; wn.touched is the order       *)
(* ViewState keeps, the view touched last first.  wn.seen is what the last *)
(* command on the views found and did.                                     *)

ViewIds(wn) == {wn.views[i].id : i \in 1..Len(wn.views)}

ViewOf(wn, id) == CHOOSE v \in {wn.views[i] : i \in 1..Len(wn.views)} : v.id = id

\* view.is_dirty()
is_dirty(wn, id) == ViewOf(wn, id).buffer \in wn.dirty

\* window.views_in_group(g)
views_in_group(wn, g) == SelectSeq(wn.views, LAMBDA v : v.group = g)

\* ViewState.sorted_views(window): line 1068 takes the current view from
\* its front, so the view touched least recently is its last
sorted_views(wn) == wn.touched

\* window.focus_view(view); None and a closed view cannot get the focus
focus_view(wn, id) ==
    IF id \in ViewIds(wn)
    THEN [wn EXCEPT !.active = id, !.focus[ViewOf(wn, id).group] = id,
                    !.layout.group = ViewOf(wn, id).group]
    ELSE wn

\* window.focus_group(g)
focus_group(wn, g) == [wn EXCEPT !.active = wn.focus[g], !.layout.group = g]

\* window.run_command('close'): the active view is closed and the host
\* makes a neighbour in its group the active one, the leftmost or the
\* rightmost as left says; on_close (lines 25-26) drops its ViewState
close(wn, left) ==
    IF wn.active \notin ViewIds(wn) THEN wn
    ELSE LET v     == ViewOf(wn, wn.active)
             views == SelectSeq(wn.views, LAMBDA x : x.id # v.id)
             rest  == SelectSeq(views, LAMBDA x : x.group = v.group)
             next  == IF rest = <<>> THEN 0
                      ELSE IF left THEN rest[1].id ELSE rest[Len(rest)].id
         IN [wn EXCEPT !.views = views,
                       !.touched = SelectSeq(@, LAMBDA x : x # v.id),
                       !.focus[v.group] = next,
                       !.active = next,
                       !.seen.closed = Append(@, v.id)]

\* a command on the views begins: what it finds
Began(wn, op, n) ==
    [wn EXCEPT !.seen = [op |-> op, n |-> n, views |-> wn.views,
                         touched |-> wn.touched, dirty |-> wn.dirty,
                         focus |-> wn.focus, closed |-> <<>>, rounds |-> 0,
                         dedups |-> 0]]

RECURSIVE close_older_loop_to_last(_, _, _, _)
\* a faulty loop: it goes on until no view is left
close_older_loop_to_last(wn, sorted, n_windows, left) ==
    IF n_windows > 0 /\ Len(sorted) > 0
    THEN LET view == sorted[Len(sorted)]
             rest == SubSeq(sorted, 1, Len(sorted) - 1)
             w1   == [wn EXCEPT !.seen.rounds = @ + 1]
         IN IF is_dirty(wn, view)
            THEN close_older_loop_to_last(w1, rest, n_windows, left)
            ELSE close_older_loop_to_last(close(focus_view(w1, view), left), rest,
                                          n_windows - 1, left)
    ELSE wn

RECURSIVE close_older_loop(_, _, _, _)
\* the loop of SbpCloseOlderViewsCommand.run_cmd, lines 1046-1052
close_older_loop(wn, sorted, n_windows, left) ==
    IF n_windows > 0 /\ Len(sorted) > 1
    THEN LET view == sorted[Len(sorted)]
             rest == SubSeq(sorted, 1, Len(sorted) - 1)
             w1   == [wn EXCEPT !.seen.rounds = @ + 1]
         IN IF is_dirty(wn, view)
            THEN close_older_loop(w1, rest, n_windows, left)
            ELSE close_older_loop(close(focus_view(w1, view), left), rest,
                                  n_windows - 1, left)
    ELSE wn

\* SbpCloseOlderViewsCommand.run_cmd, lines 1043-1055; util.view is the
\* view that was active when the command began (line 234)
close_older_views(wn, n_windows, left) ==
    focus_view(close_older_loop(Began(wn, "sbp_close_older_views", n_windows),
                                sorted_views(wn), n_windows, left),
               wn.active)

\* the buffer ids of the views
Buffers == 1..MaxViews

RECURSIVE dedup_group_keeps_first(_, _, _, _, _, _)
\* a faulty loop: the view met second is closed also when it is the active
\* one
dedup_group_keeps_first(wn, views, active, found, i, left) ==
    IF i > Len(views) THEN wn
    ELSE LET v == views[i]
         IN IF v.buffer \in wn.dirty
            THEN dedup_group_keeps_first(wn, views, active, found, i + 1, left)
            ELSE IF found[v.buffer] # 0
            THEN dedup_group_keeps_first(close(focus_view(wn, v.id), left), views,
                                         active, found, i + 1, left)
            ELSE dedup_group_keeps_first(wn, views, active,
                                         [found EXCEPT ![v.buffer] = v.id], i + 1, left)

RECURSIVE dedup_group(_, _, _, _, _, _)
\* the loop over the views of one group, lines 1487-1501; found gives a
\* buffer the view of it met so far, 0 for none
dedup_group(wn, views, active, found, i, left) ==
    IF i > Len(views) THEN wn
    ELSE LET v == views[i]
         IN IF v.buffer \in wn.dirty
            THEN dedup_group(wn, views, active, found, i + 1, left)
            ELSE IF found[v.buffer] # 0
            THEN LET swap   == v.id = active
                     victim == IF swap THEN found[v.buffer] ELSE v.id
                     found1 == IF swap THEN [found EXCEPT ![v.buffer] = v.id]
                               ELSE found
                 IN dedup_group(close(focus_view(wn, victim), left), views, active,
                                found1, i + 1, left)
            ELSE dedup_group(wn, views, active, [found EXCEPT ![v.buffer] = v.id],
                             i + 1, left)

RECURSIVE dedup_groups(_, _, _)
\* the loop over the groups, lines 1483-1502, from group g on
dedup_groups(wn, g, left) ==
    IF g >= wn.layout.groups THEN wn
    ELSE LET active == wn.focus[g]
             w1 == dedup_group(wn, views_in_group(wn, g), active,
                               [b \in Buffers |-> 0], 1, left)
         IN dedup_groups(focus_view(w1, active), g + 1, left)

\* dedup_views(window), lines 1481-1503
dedup_views(wn, left) ==
    LET before == Began(wn, "dedup_views", 0)
        w0 == [before EXCEPT !.seen.dedups = wn.seen.dedups + 1]
    IN focus_group(dedup_groups(w0, 0, left), wn.layout.group)

\* ViewWatcher.on_post_save, lines 63 and 68: the callback is scheduled
on_post_save(wn) ==
    [wn EXCEPT !.pending_dedups = @ + 1, !.callbacks = @ + 1]

\* a faulty callback: every callback dedups
dedup_doit_every_time(wn, left) ==
    dedup_views([wn EXCEPT !.pending_dedups = @ - 1, !.callbacks = @ - 1], left)

\* doit of on_post_save, lines 64-67, when its timer fires
dedup_doit(wn, left) ==
    LET w1 == [wn EXCEPT !.pending_dedups = @ - 1, !.callbacks = @ - 1]
    IN IF w1.pending_dedups = 0 THEN dedup_views(w1, left) ELSE w1

-----------------------------------------------------------------------------
(* sublime.Region and sublime.Selection, as jove.py uses them.  A region   *)
(* is <<a, b>>; a selection is a sequence of regions in buffer order, no   *)
(* two of them intersecting: Selection.add merges the region it is given   *)
(* with every region of the set that it intersects.                        *)

Min2(x, y) == IF x < y THEN x ELSE y

Max2(x, y) == IF x < y THEN y ELSE x

Begin(r) == Min2(r[1], r[2])

End(r) == Max2(r[1], r[2])

IsEmpty(r) == r[1] = r[2]

\* Region.__lt__, line 578: by begin(), then by end()
Lt(r1, r2) ==
    IF Begin(r1) = Begin(r2) THEN End(r1) < End(r2) ELSE Begin(r1) < Begin(r2)

\* Region.contains(point), line 587: both ends count
Contains(r, p) == Begin(r) <= p /\ p <= End(r)

\* two regions the selection cannot hold apart: they share a character, or
\* one is a caret on or inside the other
Intersects(r1, r2) ==
    \/ Begin(r1) < End(r2) /\ Begin(r2) < End(r1)
    \/ IsEmpty(r1) /\ Contains(r2, r1[1])
    \/ IsEmpty(r2) /\ Contains(r1, r2[1])

\* Selection.add(r), lines 579-581
SelAdd(s, r) ==
    LET hit  == {i \in 1..Len(s) : Intersects(s[i], r)}
        lo   == CHOOSE x \in {Begin(r)} \cup {Begin(s[i]) : i \in hit} :
                    \A y \in {Begin(r)} \cup {Begin(s[i]) : i \in hit} : x <= y
        hi   == CHOOSE x \in {End(r)} \cup {End(s[i]) : i \in hit} :
                    \A y \in {End(r)} \cup {End(s[i]) : i \in hit} : x >= y
        m    == IF hit = {} THEN r ELSE <<lo, hi>>
        rest == SelectSeq(s, LAMBDA x : ~Intersects(x, r))
    IN SelectSeq(rest, LAMBDA x : Lt(x, m)) \o <<m>>
         \o SelectSeq(rest, LAMBDA x : ~Lt(x, m))

\* Selection.add_all(rs), line 594, after Selection.clear()
RECURSIVE SelAddAll(_, _)
SelAddAll(s, rs) ==
    IF rs = <<>> THEN s ELSE SelAddAll(SelAdd(s, Head(rs)), Tail(rs))

\* view.substr(r), line 598; the host cuts a region to the buffer
Substr(t, r) == SubSeq(t, Min2(Begin(r), Len(t)) + 1, Min2(End(r), Len(t)))

\* view.erase(edit, r), line 603: the buffer without the region
EraseText(t, r) ==
    SubSeq(t, 1, Min2(Begin(r), Len(t))) \o SubSeq(t, Min2(End(r), Len(t)) + 1, Len(t))

\* where the host puts a position of the selection when r is erased
ShiftPoint(p, r) ==
    IF p <= Begin(r) THEN p
    ELSE IF p <= End(r) THEN Begin(r)
    ELSE p - (End(r) - Begin(r))

\* the selection after view.erase(edit, r)
EraseSel(s, r) ==
    SelAddAll(<<>>, [i \in 1..Len(s) |-> <<ShiftPoint(s[i][1], r), ShiftPoint(s[i][2], r)>>])

-----------------------------------------------------------------------------
(* MoveThenDeleteHelper (lines 551-603).                                   *)

\* ViewState.last_was_kill_cmd: the previous command was a kill command
KillCmds ==
    {"sbp_move_then_delete", "sbp_kill_region", "sbp_zap_to_char",
     "sbp_finish_move_then_delete"}

last_was_kill_cmd(v) == v.last_cmd \in KillCmds

\* __init__, lines 552-560
helper_open(s) == [orig_cursors |-> s, forward |-> TRUE]

\* a faulty pairing: a cursor that moved backward sweeps nothing
kill_region_forward_only(old, new) ==
    IF Lt(old, new) THEN <<Begin(old), End(new)>> ELSE <<Begin(old), End(old)>>

\* lines 577-581: the kill region of one snapshot cursor and its new place
kill_region(old, new) ==
    IF Lt(old, new) THEN <<Begin(old), End(new)>> ELSE <<Begin(new), End(old)>>

\* zip(orig_cursors, new_cursors) turned into regions, in order
paired_regions(orig_cursors, new_cursors) ==
    [i \in 1..Min2(Len(orig_cursors), Len(new_cursors)) |->
        kill_region(orig_cursors[i], new_cursors[i])]

\* lines 584-589: a region's begin lies in the region before it
regions_overlap(cursors) ==
    \E i \in 1..(Len(cursors) - 1) : Contains(cursors[i], Begin(cursors[i + 1]))

\* lines 602-603: for region in selection: view.erase(edit, region); the
\* loop goes by index over the live selection
RECURSIVE erase_loop(_, _, _)
erase_loop(t, s, i) ==
    IF i > Len(s) THEN [text |-> t, sel |-> s]
    ELSE erase_loop(EraseText(t, s[i]), EraseSel(s, s[i]), i + 1)

\* a faulty finish: the regions are erased first, then read for the kill ring
finish_erases_first(w, h) ==
    LET new_cursors == w.sel
        pairs   == paired_regions(h.orig_cursors, new_cursors)
        cursors == SelAddAll(<<>>, pairs)
        seen    == [orig |-> h.orig_cursors, new |-> new_cursors, regions |-> pairs,
                    text |-> w.text, kills |-> Len(w.kill_ring),
                    forward |-> h.forward, last_cmd |-> w.vs.last_cmd]
    IN IF regions_overlap(cursors)
       THEN [w EXCEPT !.sel = SelAddAll(<<>>, h.orig_cursors),
                      !.kill = <<seen @@ [aborted |-> TRUE]>>]
       ELSE LET erased == erase_loop(w.text, cursors, 1)
                entry  == [regions |-> [i \in 1..Len(cursors) |-> Substr(erased.text, cursors[i])],
                           forward |-> h.forward,
                           join |-> last_was_kill_cmd(w.vs)]
                edited == erased.text # w.text
            IN [w EXCEPT !.kill_ring = Append(@, entry),
                         !.kill_index = 0,
                         !.text = erased.text,
                         !.sel = erased.sel,
                         !.vs = IF edited THEN on_modified(@) ELSE @,
                         !.status = IF edited THEN "" ELSE @,
                         !.kill = <<seen @@ [aborted |-> FALSE]>>]

\* finish, lines 566-603, on the world w with the helper h
finish(w, h) ==
    LET new_cursors == w.sel
        pairs   == paired_regions(h.orig_cursors, new_cursors)
        cursors == SelAddAll(<<>>, pairs)
        seen    == [orig |-> h.orig_cursors, new |-> new_cursors, regions |-> pairs,
                    text |-> w.text, kills |-> Len(w.kill_ring),
                    forward |-> h.forward, last_cmd |-> w.vs.last_cmd]
    IN IF regions_overlap(cursors)
       THEN [w EXCEPT !.sel = SelAddAll(<<>>, h.orig_cursors),
                      !.kill = <<seen @@ [aborted |-> TRUE]>>]
       ELSE LET erased == erase_loop(w.text, cursors, 1)
                entry  == [regions |-> [i \in 1..Len(cursors) |-> Substr(w.text, cursors[i])],
                           forward |-> h.forward,
                           join |-> last_was_kill_cmd(w.vs)]
                edited == erased.text # w.text
            IN [w EXCEPT !.kill_ring = Append(@, entry),
                         !.kill_index = 0,
                         !.text = erased.text,
                         !.sel = erased.sel,
                         !.vs = IF edited THEN on_modified(@) ELSE @,
                         !.status = IF edited THEN "" ELSE @,
                         !.kill = <<seen @@ [aborted |-> FALSE]>>]

-----------------------------------------------------------------------------
(* The commands.  A world is the state a command works on; the host's      *)
(* part in a command is given by o: whether a native command found         *)
(* something to change (o.modified) and where a motion leaves the cursors  *)
(* (o.sel).                                                                *)

World ==
    [vs |-> vs, isearch |-> isearch, status |-> status, ran |-> ran,
     timers |-> timers, tokens |-> tokens, prev_count |-> prev_count,
     text |-> text, sel |-> sel, kill_ring |-> kill_ring, kill_index |-> kill_index,
     kill |-> kill,
     ran_open |-> ran_open, panel |-> panel, center |-> center]

\* a native command of the host: it runs, a motion moves the cursors, an
\* edit is reported to on_modified
native(w, inv, o) ==
    LET w1 == [w EXCEPT !.ran = Append(@, inv), !.ran_open = Append(@, w.isearch)]
        w2 == IF inv.cmd \in MotionCmds THEN [w1 EXCEPT !.sel = o.sel] ELSE w1
    IN IF inv.cmd \in ModifyingCmds /\ o.modified
       THEN [w2 EXCEPT !.vs = on_modified(@), !.status = ""]
       ELSE w2

\* SbpDoTimesCommand.doit, lines 255-257: the same cmd and args, _times
\* times over; every run is a run of native, written here as their sum
doit(w, inv, n, o) ==
    IF n <= 0 THEN w
    ELSE LET w1 == native(w, inv, o)
         IN [w1 EXCEPT !.ran = w.ran \o [i \in 1..n |-> inv],
                       !.ran_open = w.ran_open \o [i \in 1..n |-> w.isearch]]

\* a faulty command: undo and redo are repeated at once like the others
do_times_at_once(w, args, o) ==
    doit(w, Invocation(args["cmd"], Without(args, {"cmd", "_times"})), args["_times"], o)

\* SbpDoTimesCommand.run_cmd, lines 251-265
do_times(w, args, o) ==
    LET inv == Invocation(args["cmd"], Without(args, {"cmd", "_times"}))
    IN IF args["cmd"] \in {"redo", "undo"}
       THEN [w EXCEPT !.timers = Append(@, [inv |-> inv, times |-> args["_times"]])]
       ELSE doit(w, inv, args["_times"], o)

\* SbpUniversalArgumentCommand.run_cmd, with the record of what was fed
feed_argument(w, args) ==
    [w EXCEPT !.vs = universal_argument(@, args["value"]),
              !.tokens = Append(@, args["value"]),
              !.prev_count = get_count(w.vs)]

\* CmdUtil.swap_point_and_mark: the cursors go to the mark, the mark to
\* where the cursors were
swap_point_and_mark(w) ==
    IF w.vs.mark_ring = <<>> THEN w
    ELSE LET n == Len(w.vs.mark_ring)
         IN [w EXCEPT !.sel = SelAddAll(<<>>, w.vs.mark_ring[n]),
                      !.vs.mark_ring[n] = [i \in 1..Len(w.sel) |-> <<w.sel[i][2], w.sel[i][2]>>]]

\* SbpSwapPointAndMarkCommand.run_cmd, lines 821-825
swap_cmd(w, args) ==
    IF w.vs.argument_supplied \/ Get(args, "toggle_active_mark_mode", FALSE)
    THEN [w EXCEPT !.vs = toggle_active_mark_mode(@, None)]
    ELSE swap_point_and_mark(w)

\* the sub-commands of sbp_inc_search that work inside the session, lines
\* 1177-1195
SessionCmds ==
    {"next", "pop", "append_from_cursor", "keep_all", "yank", "set_search", "history"}

\* SbpIncSearchCommand.run_cmd, lines 1168-1198: a session is opened, or
\* ended by done and quit; the other sub-commands work inside the session,
\* and a cmd that is none of them is printed (line 1198)
inc_search(w, args) ==
    IF ~w.isearch \/ ~Has(args, "cmd") THEN [w EXCEPT !.isearch = TRUE]
    ELSE IF args["cmd"] \in {"done", "quit"} THEN [w EXCEPT !.isearch = FALSE]
    ELSE IF args["cmd"] \in SessionCmds THEN w
    ELSE w

\* str.upper and str.lower on numbered characters: the upper-case form of
\* the character c is c + CaseShift
CaseShift == 100

upper(c) == IF c > CaseShift THEN c ELSE c + CaseShift

lower(c) == IF c > CaseShift THEN c - CaseShift ELSE c

\* view.replace(edit, region, text) with the text of the region in the
\* case of mode
replace_case(t, r, mode) ==
    [i \in 1..Len(t) |->
        IF Begin(r) < i /\ i <= End(r)
        THEN (IF mode = "upper" THEN upper(t[i]) ELSE lower(t[i]))
        ELSE t[i]]

\* a faulty sbp_case_region: a mode it does not know is taken as lower
case_region_unknown_lowers(w, args) ==
    LET region == get_regions(w.vs, w.sel)[1]
        new    == replace_case(w.text, region, args["mode"])
    IN [w EXCEPT !.text = new,
                 !.vs = IF new # w.text THEN on_modified(@) ELSE @,
                 !.status = IF new # w.text THEN "" ELSE @]

\* SbpCaseRegion.run_cmd, lines 393-403
case_region(w, args) ==
    LET region == get_regions(w.vs, w.sel)[1]
        new    == replace_case(w.text, region, args["mode"])
    IN IF args["mode"] \in {"upper", "lower"}
       THEN [w EXCEPT !.text = new,
                      !.vs = IF new # w.text THEN on_modified(@) ELSE @,
                      !.status = IF new # w.text THEN "" ELSE @]
       ELSE [w EXCEPT !.status = "Unknown Mode"]

\* the characters of the buffer are numbered; the odd ones are word
\* characters and the even ones separators (sbp_word_separators, line 310)
IsWordCharacter(c) == c % 2 = 1

\* sublime.CLASS_WORD_START at point p of the text t
WordStart(t, p) ==
    p < Len(t) /\ IsWordCharacter(t[p + 1]) /\ (p = 0 \/ ~IsWordCharacter(t[p]))

\* sublime.CLASS_WORD_END at point p of the text t
WordEnd(t, p) ==
    p > 0 /\ IsWordCharacter(t[p]) /\ (p = Len(t) \/ ~IsWordCharacter(t[p + 1]))

\* view.find_by_class(point, forward, classes, separators), lines 304-305:
\* the next point of the class past point, or the end of the buffer
find_by_class(t, point, forward, start) ==
    LET hits == {q \in 0..Len(t) :
                    /\ IF forward THEN q > point ELSE q < point
                    /\ IF start THEN WordStart(t, q) ELSE WordEnd(t, q)}
    IN IF hits = {} THEN (IF forward THEN Len(t) ELSE 0)
       ELSE IF forward THEN CHOOSE q \in hits : \A x \in hits : q <= x
       ELSE CHOOSE q \in hits : \A x \in hits : x <= q

\* CmdUtil.is_word_char(point, forward, separators)
is_word_char(t, point, forward) ==
    IF forward THEN point < Len(t) /\ IsWordCharacter(t[point + 1])
    ELSE point > 0 /\ IsWordCharacter(t[point])

\* move_word0, lines 324-335
move_word0(t, cursor, forward, first) ==
    LET point == cursor[2]
        skip  == IF ~first \/ ~is_word_char(t, point, forward)
                 THEN find_by_class(t, point, forward, forward) ELSE point
        stop  == find_by_class(t, skip, forward, ~forward)
    IN <<stop, stop>>

\* util.for_each_cursor(move_word0, first=(c == 0)) for c in range(count),
\* lines 337-338; past the first round a round that moves no cursor is
\* followed only by rounds that move none, so the loop is cut short there
RECURSIVE move_words(_, _, _, _, _)
move_words(t, s, forward, c, count) ==
    IF c >= count THEN s
    ELSE LET moved == SelAddAll(<<>>, [i \in 1..Len(s) |-> move_word0(t, s[i], forward, c = 0)])
         IN IF c > 0 /\ moved = s THEN s
            ELSE move_words(t, moved, forward, c + 1, count)

\* SbpMoveWordCommand.run_cmd, lines 307-338
move_word(w, inv, o) ==
    LET count == get_count(w.vs) * Get(inv.args, "direction", 1)
    IN [w EXCEPT !.ran = Append(@, inv), !.ran_open = Append(@, w.isearch),
                 !.sel = move_words(w.text, w.sel, count > 0, 0, Abs(count))]

\* util.view.run_command(move_cmd, kwargs), line 627
motion(w, inv, o) ==
    IF inv.cmd = "sbp_move_word" THEN move_word(w, inv, o) ELSE native(w, inv, o)

\* the record of a transaction is completed with the signed count its
\* command read when it made the helper, with whether the helper was
\* stored over another one, and with the cursors its motion started from
Noted(w, count, over, from) ==
    IF w.kill = <<>> THEN w
    ELSE [w EXCEPT !.kill = <<w.kill[1] @@ [count |-> count, over |-> over,
                                            from |-> from]>>]

\* SbpMoveThenDeleteCommand.run_cmd, lines 617-628
move_then_delete(w, args, o) ==
    LET kwargs == Without(args, {"move_cmd"})
        peek   == get_count(w.vs)
        count  == IF Has(kwargs, "direction") THEN peek * kwargs["direction"] ELSE peek
        helper == [helper_open(w.sel) EXCEPT !.forward = count > 0]
    IN Noted(finish(motion(w, Invocation(args["move_cmd"], kwargs), o), helper),
             count, FALSE, w.sel)

\* AskCharOrStringBase.run_cmd with SbpJumpToCharCommand.run_cmd and
\* SbpZapToCharCommand.run_cmd, lines 1275-1282, 1308-1312, 1327-1331: the
\* command makes its helper, reads the count and shows the input panel;
\* the panel holds what the command object keeps for its callback
zap_to_char(w, args) ==
    [w EXCEPT !.panel = <<[helper |-> helper_open(w.sel), count |-> get_count(w.vs),
                           plus_one |-> Get(args, "plus_one", FALSE)]>>]

\* view.find(ch, from, sublime.LITERAL): the places at or after 'from' where
\* the character ch stands; the first of them is the match
find(t, ch, from) == {p \in from..(Len(t) - 1) : t[p + 1] = ch}

\* SbpJumpToCharCommand.process_one, lines 1314-1323; a cursor stays when
\* the character is not found
process_one(t, cursor, ch, plus_one, last_iteration) ==
    LET r == find(t, ch, End(cursor))
    IN IF r = {} THEN cursor
       ELSE LET p == CHOOSE x \in r : \A y \in r : x <= y
                q == IF plus_one \/ ~last_iteration THEN p + 1 ELSE p
            IN <<q, q>>

\* CmdUtil.for_each_cursor(process_one, ch): every cursor is replaced by
\* the point the function returns
for_each_cursor(t, s, ch, plus_one, last_iteration) ==
    SelAddAll(<<>>, [i \in 1..Len(s) |-> process_one(t, s[i], ch, plus_one, last_iteration)])

\* the loop of AskCharOrStringBase.process_cursors, lines 1294-1297; a round
\* before the last that moves no cursor is the same as all that follow it
\* up to the last
RECURSIVE jump_rounds(_, _, _, _, _, _)
jump_rounds(t, s, ch, plus_one, i, count) ==
    IF i >= count THEN s
    ELSE LET s1 == for_each_cursor(t, s, ch, plus_one, i = count - 1)
         IN IF i < count - 1 /\ s1 = s
            THEN jump_rounds(t, s, ch, plus_one, count - 1, count)
            ELSE jump_rounds(t, s1, ch, plus_one, i + 1, count)

\* a faulty finish command: the helper stays in the slot
finish_cmd_keeps_slot(w) ==
    LET slot == w.vs.pending_move_then_delete_helper
    IN IF slot = <<>> THEN w ELSE finish(w, slot[1])

\* a faulty finish command: with nothing pending it finishes a helper of
\* its own
finish_cmd_own_helper(w) ==
    LET slot == w.vs.pending_move_then_delete_helper
    IN IF slot = <<>> THEN finish(w, helper_open(<<>>))
       ELSE finish([w EXCEPT !.vs.pending_move_then_delete_helper = <<>>], slot[1])

\* SbpFinishMoveThenDeleteCommand.run_cmd, lines 1354-1358: the slot is
\* read and emptied, then the helper finishes; with nothing pending the
\* helper is None and helper.finish raises before anything is changed
finish_cmd(w) ==
    LET slot == w.vs.pending_move_then_delete_helper
    IN IF slot = <<>> THEN w
       ELSE finish([w EXCEPT !.vs.pending_move_then_delete_helper = <<>>], slot[1])

\* SCROLL_TYPES, line 732
SCROLL_TYPES == [CENTER |-> 0, TOP |-> 1, BOTTOM |-> 2]

\* last_scroll_type = None, line 746
NoScrollType == -1

\* where the view is scrolled to for a scroll type, lines 783-792
Shown(type) == <<"center", "top", "bottom">>[type + 1]

\* a faulty cycle: the scroll type goes on although the cursor has moved
cycle_center_view_no_reset(w, start) ==
    LET c    == w.center
        seen == [sel |-> w.sel, sel_before |-> IF c.seen = <<>> THEN <<>> ELSE c.seen[1].sel,
                 type_before |-> c.last_scroll_type]
        type == IF c.last_scroll_type = NoScrollType THEN SCROLL_TYPES.CENTER
                ELSE (c.last_scroll_type + 1) % 3
    IN [w EXCEPT !.center = [last_sel |-> <<start>>, last_scroll_type |-> type,
                             shown |-> Shown(type), seen |-> <<seen>>]]

\* SbpCenterViewCommand.cycle_center_view, lines 768-792, with start the
\* first region of the selection; last_sel is <<>> for None; seen keeps the
\* whole selection of this run and of the cycling run before it
cycle_center_view(w, start) ==
    LET c    == w.center
        seen == [sel |-> w.sel, sel_before |-> IF c.seen = <<>> THEN <<>> ELSE c.seen[1].sel,
                 type_before |-> c.last_scroll_type]
    IN IF <<start>> # c.last_sel
       THEN [w EXCEPT !.center = [last_sel |-> <<start>>,
                                  last_scroll_type |-> SCROLL_TYPES.CENTER,
                                  shown |-> Shown(SCROLL_TYPES.CENTER),
                                  seen |-> <<seen>>]]
       ELSE LET type == (c.last_scroll_type + 1) % 3
            IN [w EXCEPT !.center = [last_sel |-> <<start>>, last_scroll_type |-> type,
                                     shown |-> Shown(type), seen |-> <<seen>>]]

\* SbpCenterViewCommand.run_cmd, lines 754-766: with a prefix argument the
\* view is scrolled by that many lines, with center_only it is centred,
\* otherwise the cycle is run
center_view(w, args) ==
    IF w.vs.argument_supplied THEN [w EXCEPT !.center.shown = "offset"]
    ELSE IF Get(args, "center_only", FALSE)
    THEN [w EXCEPT !.center.shown = Shown(SCROLL_TYPES.CENTER)]
    ELSE cycle_center_view(w, w.sel[1])

\* a faulty pop: the mark popped is not given to the cursors
set_mark_cmd_no_restore(w) ==
    IF w.vs.argument_supplied
    THEN IF w.vs.mark_ring = <<>>
         THEN [w EXCEPT !.status = "No mark to pop!", !.vs.this_cmd = "sbp_pop_mark"]
         ELSE [w EXCEPT !.vs.mark_ring = SubSeq(@, 1, Len(@) - 1),
                        !.vs.this_cmd = "sbp_pop_mark"]
    ELSE IF w.vs.this_cmd = w.vs.last_cmd
    THEN [w EXCEPT !.vs = toggle_active_mark_mode(@, None)]
    ELSE [w EXCEPT !.vs = push_mark(@, [i \in 1..Len(w.sel) |-> <<w.sel[i][2], w.sel[i][2]>>])]

\* SbpSetMarkCommand.run_cmd, lines 795-809, with the setting
\* sbp_active_mark_mode at its default False (lines 811-812): with an
\* argument the newest mark is popped and the cursors go there, twice in a
\* row the highlight is toggled, otherwise the cursors are pushed as a mark
set_mark_cmd(w) ==
    IF w.vs.argument_supplied
    THEN IF w.vs.mark_ring = <<>>
         THEN [w EXCEPT !.status = "No mark to pop!", !.vs.this_cmd = "sbp_pop_mark"]
         ELSE LET n == Len(w.vs.mark_ring)
              IN [w EXCEPT !.sel = SelAddAll(<<>>, w.vs.mark_ring[n]),
                           !.vs.mark_ring = SubSeq(@, 1, n - 1),
                           !.vs.this_cmd = "sbp_pop_mark"]
    ELSE IF w.vs.this_cmd = w.vs.last_cmd
    THEN [w EXCEPT !.vs = toggle_active_mark_mode(@, None)]
    ELSE [w EXCEPT !.vs = push_mark(@, [i \in 1..Len(w.sel) |-> <<w.sel[i][2], w.sel[i][2]>>])]

\* a faulty escape: the session is left open
escape_keeps_session(w) == w

\* SbpIncSearchEscapeCommand.run_cmd, lines 1208-1210: info.done()
escape_done(w) == [w EXCEPT !.isearch = FALSE]

\* run_cmd of the command inv.cmd
RECURSIVE run_cmd(_, _, _)
-----------------------------------------------------------------------------
(* sbp_kill_region and sbp_yank.                                           *)

\* CmdUtil.get_regions() gives None when the view has no mark
has_regions(v) == v.mark_ring # <<>>

\* a region cut to a buffer of n characters
Clamp(r, n) == <<Min2(r[1], n), Min2(r[2], n)>>

RECURSIVE erase_reversed(_, _, _)
\* lines 858-859 and 1139-1140: for r in reversed(regions): view.erase(edit, r)
erase_reversed(t, s, regions) ==
    IF regions = <<>> THEN [text |-> t, sel |-> s]
    ELSE LET r == Clamp(regions[Len(regions)], Len(t))
         IN erase_reversed(EraseText(t, r), EraseSel(s, r),
                           SubSeq(regions, 1, Len(regions) - 1))

\* lines 855-863: the texts of the regions go to the kill ring, the regions
\* are erased unless is_copy, and the mark is turned off
kill_region_with(w, args, data, erased) ==
    LET w1 == IF ~Get(args, "is_copy", FALSE)
              THEN [w EXCEPT !.text = erased.text, !.sel = erased.sel,
                             !.vs = IF erased.text # w.text THEN on_modified(@) ELSE @,
                             !.status = IF erased.text # w.text THEN "" ELSE @]
              ELSE [w EXCEPT !.status = "Copied bytes in regions"]
    IN [w1 EXCEPT !.kill_ring = Append(@, [regions |-> data, forward |-> TRUE,
                                          join |-> FALSE]),
                  !.kill_index = 0,
                  !.vs = toggle_active_mark_mode(@, "False")]

\* lines 854-859, on the regions between the cursors and their marks
kill_region_of(w, args, regions) ==
    kill_region_with(w, args,
                     [i \in 1..Len(regions) |-> Substr(w.text, regions[i])],
                     erase_reversed(w.text, w.sel, regions))

\* SbpKillRegionCommand.run_cmd, lines 851-863
kill_region_cmd(w, args) ==
    IF ~has_regions(w.vs) THEN w
    ELSE kill_region_of(w, args, get_regions(w.vs, w.sel))

\* kill_ring.get_current(n, pop): with pop the current position moves that
\* many entries back, around the ring; the entry there gives one text for
\* each of the n cursors, its own texts when it has n of them and its
\* first text for every cursor otherwise.  None, here <<>>, for an empty
\* ring
get_current(ring, index, n, pop) ==
    IF ring = <<>> THEN [index |-> index, data |-> <<>>]
    ELSE LET i == (index + pop) % Len(ring)
             e == ring[Len(ring) - i].regions
         IN [index |-> i,
             data |-> IF Len(e) = n THEN e ELSE [k \in 1..n |-> e[1]]]

RECURSIVE replace_reversed(_, _, _, _, _)
\* lines 1145-1146: the cursors are replaced by their texts, last first;
\* a cursor then spans the text put in its place.  done holds the cursors
\* after the i-th, as they lie in the new text
replace_reversed(t, cursors, data, i, done) ==
    IF i = 0 THEN [text |-> t, sel |-> done]
    ELSE LET r     == Clamp(cursors[i], Len(t))
             delta == Len(data[i]) - (End(r) - Begin(r))
         IN replace_reversed(
               SubSeq(t, 1, Begin(r)) \o data[i] \o SubSeq(t, End(r) + 1, Len(t)),
               cursors, data, i - 1,
               <<<<Begin(r), Begin(r) + Len(data[i])>>>>
                 \o [k \in 1..Len(done) |-> <<done[k][1] + delta, done[k][2] + delta>>])

\* mark_ring.set(cursors, True): the newest entry of the ring is replaced,
\* or made when the ring has none
set_mark_top(v, cursors) ==
    IF v.mark_ring = <<>> THEN push_mark(v, cursors)
    ELSE [v EXCEPT !.mark_ring[Len(v.mark_ring)] = cursors]

\* lines 1147-1149: the mark is set where each text begins and the cursors
\* are left where it ends; told is the text before the command
yank_marked(w, told, put, rest) ==
    LET spans == put.sel \o rest
    IN [w EXCEPT
          !.text = put.text,
          !.vs = LET v1 == IF put.text # told THEN on_modified(@) ELSE @
                 IN set_mark_top(v1, [k \in 1..Len(spans) |->
                                         <<Begin(spans[k]), Begin(spans[k])>>]),
          !.status = IF put.text # told THEN "" ELSE @,
          !.sel = SelAddAll(<<>>, [k \in 1..Len(spans) |->
                                     <<spans[k][2], spans[k][2]>>])]

\* lines 1142-1146: zip(cursors, data) pairs as many as the shorter has
yank_put(w, told, erased, data) ==
    LET n == Min2(Len(erased.sel), Len(data))
    IN yank_marked(w, told,
                   replace_reversed(erased.text, erased.sel, data, n, <<>>),
                   SubSeq(erased.sel, n + 1, Len(erased.sel)))

\* lines 1132-1146, with what the kill ring gave
yank_got(w, pop, got) ==
    LET w1 == [w EXCEPT !.kill_index = got.index]
    IN IF got.data = <<>> THEN w1
       ELSE IF pop # 0 /\ ~has_regions(w.vs) THEN w1
       ELSE yank_put(w1, w.text,
                     IF pop # 0
                     THEN erase_reversed(w.text, w.sel, get_regions(w.vs, w.sel))
                     ELSE [text |-> w.text, sel |-> w.sel],
                     got.data)

\* lines 1126-1149 of SbpYankCommand.run_cmd: the yank itself
yank_insert(w, pop) ==
    yank_got(w, pop, get_current(w.kill_ring, w.kill_index, Len(w.sel), pop))

\* a faulty command: a pop is made whatever the command before was
yank_pops_always(w, args) == yank_insert(w, Get(args, "pop", 0))

\* SbpYankCommand.run_cmd, lines 1121-1149
yank(w, args) ==
    LET pop == Get(args, "pop", 0)
    IN IF pop # 0 /\ w.vs.last_cmd # "sbp_yank"
       THEN [w EXCEPT !.status = "Previous command was not yank!"]
       ELSE yank_insert(w, pop)

run_cmd(w, inv, o) ==
    CASE inv.cmd = "sbp_universal_argument" -> feed_argument(w, inv.args)
      [] inv.cmd = "sbp_do_times" -> do_times(w, inv.args, o)
      [] inv.cmd = "sbp_swap_point_and_mark" -> swap_cmd(w, inv.args)
      [] inv.cmd = "sbp_inc_search" -> inc_search(w, inv.args)
      [] inv.cmd = "sbp_inc_search_escape" ->
            \* lines 1208-1211: info.done(), then the command that was held back
            run_cmd(escape_done(w),
                    Invocation(inv.args["next_cmd"], inv.args["next_args"]), o)
      [] inv.cmd = "sbp_move_then_delete" -> move_then_delete(w, inv.args, o)
      [] inv.cmd = "sbp_move_word" -> move_word(w, inv, o)
      [] inv.cmd = "sbp_set_mark" -> set_mark_cmd(w)
      [] inv.cmd = "sbp_center_view" -> center_view(w, inv.args)
      [] inv.cmd = "sbp_case_region" -> case_region(w, inv.args)
      [] inv.cmd = "sbp_zap_to_char" -> zap_to_char(w, inv.args)
      [] inv.cmd = "sbp_finish_move_then_delete" -> finish_cmd(w)
      [] inv.cmd = "sbp_kill_region" -> kill_region_cmd(w, inv.args)
      [] inv.cmd = "sbp_yank" -> yank(w, inv.args)
      [] OTHER -> native(w, inv, o)

\* the host runs the dispatched command; a command of the package runs
\* inside SbpTextCommand.run
run_command(w, inv, o) ==
    IF IsSbp(inv.cmd)
    THEN LET w1 == run_cmd([w EXCEPT !.vs = sbp_enter(@, inv.cmd)], inv, o)
         IN [w1 EXCEPT !.vs = sbp_leave(@, inv.cmd)]
    ELSE run_cmd(w, inv, o)

\* SbpZapToCharCommand.process_cursors, lines 1333-1344, called by
\* on_change with the character typed (lines 1284-1288): the panel is
\* hidden, the cursors jump, the helper is put in the slot and the finish
\* command is run
zap_process_cursors(w, ch, o) ==
    LET p  == w.panel[1]
        w1 == [w EXCEPT !.panel = <<>>,
                        !.sel = jump_rounds(w.text, w.sel, ch, p.plus_one, 0, Abs(p.count))]
        w2 == [w1 EXCEPT !.vs.pending_move_then_delete_helper = <<p.helper>>]
        w3 == run_command(w2, Invocation("sbp_finish_move_then_delete", NoArgs), o)
    IN Noted(w3, p.count, w1.vs.pending_move_then_delete_helper # <<>>, w.sel)

-----------------------------------------------------------------------------
(* The state after construction, and the steps.                            *)

\* ViewState.reset
InitViewState ==
    [this_cmd |-> None, last_cmd |-> None,
     argument_value |-> 0, argument_supplied |-> FALSE, argument_negative |-> FALSE,
     active_mark |-> FALSE, drag_count |-> 0, mark_ring |-> <<>>,
     pending_move_then_delete_helper |-> <<>>]

\* no command on the views has run since the views last changed otherwise;
\* dedups counts the runs of dedup_views since a save last found no
\* callback outstanding
NoneSeen ==
    [op |-> None, n |-> 0, views |-> <<>>, touched |-> <<>>, dirty |-> {},
     focus |-> [g \in 0..(MaxGroups - 1) |-> 0],
     closed |-> <<>>, rounds |-> 0, dedups |-> 0]

\* the window after construction: MaxViews views of as many buffers, all
\* in the one group, the first of them active and touched last; nothing
\* pending (ViewWatcher.__init__, line 23)
InitWindow ==
    [active |-> TheView, checks |-> <<>>, tick |-> FALSE,
     note |-> [kind |-> None, view |-> TheView, widget |-> FALSE],
     layout |-> [groups |-> 1, group |-> 0, size |-> 0],
     views |-> [i \in 1..MaxViews |-> [id |-> i, buffer |-> i, group |-> 0]],
     dirty |-> {},
     touched |-> [i \in 1..MaxViews |-> i],
     focus |-> [g \in 0..(MaxGroups - 1) |-> IF g = 0 THEN TheView ELSE 0],
     pending_dedups |-> 0, callbacks |-> 0,
     seen |-> NoneSeen]

\* the state after construction but for the cursors s, the window wn and
\* the kill ring, which is the sublime session's and may hold the kills
\* made in other views
InitRing(s, wn, ring) ==
    /\ vs = InitViewState
    /\ isearch = FALSE
    /\ status = ""
    /\ pc = "idle"
    /\ orig = Invocation(None, NoArgs)
    /\ cur = Invocation(None, NoArgs)
    /\ pre = [supplied |-> FALSE, count |-> 1, active_mark |-> FALSE, isearch |-> FALSE,
              this_cmd |-> None, last_cmd |-> None, mark_ring |-> <<>>, sel |-> s,
              drag_count |-> 0]
    /\ ran = <<>>
    /\ timers = <<>>
    /\ timer_ran = <<>>
    /\ tokens = <<>>
    /\ prev_count = 1
    /\ text = [i \in 1..BufLen |-> i]
    /\ sel = s
    /\ kill_ring = ring
    /\ kill_index = 0
    /\ kill = <<>>
    /\ ran_open = <<>>
    /\ panel = <<>>
    /\ notes = <<>>
    /\ win = wn
    /\ center = [last_sel |-> <<>>, last_scroll_type |-> NoScrollType, shown |-> None,
                 seen |-> <<>>]

InitWith(s, wn) == InitRing(s, wn, <<>>)

InitBut(s) == InitWith(s, InitWindow)

Init == InitBut(<<<<0, 0>>>>)

\* the variables a command can change take the values of the world w; the
\* record of the fed values ends when the argument is reset
Becomes(w) ==
    /\ vs' = w.vs
    /\ isearch' = w.isearch
    /\ status' = w.status
    /\ ran' = w.ran
    /\ timers' = w.timers
    /\ tokens' = IF w.vs.argument_supplied THEN w.tokens ELSE <<>>
    /\ prev_count' = IF w.vs.argument_supplied THEN w.prev_count ELSE 1
    /\ text' = w.text
    /\ sel' = w.sel
    /\ kill_ring' = w.kill_ring
    /\ kill_index' = w.kill_index
    /\ kill' = w.kill
    /\ ran_open' = w.ran_open
    /\ panel' = w.panel
    /\ center' = w.center

\* pre-dispatch: the host calls on_text_command(view, cmd, args)
PreDispatch(cmd, args) ==
    /\ pc = "idle"
    /\ cmd = "sbp_universal_argument" => Len(tokens) < MaxTokens
    /\ cmd \in {"undo", "redo", "sbp_do_times"} => Len(timers) < MaxTimers
    /\ cmd \in KillCmds => Len(kill_ring) < MaxKills
    /\ LET r == on_text_command(vs, isearch, cmd, args)
       IN /\ vs' = r.vs
          /\ status' = IF r.erase THEN "" ELSE status
          /\ cur' = IF r.ret = <<>> THEN Invocation(cmd, args) ELSE r.ret[1]
    /\ orig' = Invocation(cmd, args)
    /\ pre' = [supplied |-> vs.argument_supplied, count |-> get_count(vs),
               active_mark |-> vs.active_mark, isearch |-> isearch,
               this_cmd |-> on_text_command(vs, isearch, cmd, args).vs.this_cmd,
               last_cmd |-> vs.last_cmd, mark_ring |-> vs.mark_ring, sel |-> sel,
               drag_count |-> on_text_command(vs, isearch, cmd, args).vs.drag_count]
    /\ ran' = <<>>
    /\ ran_open' = <<>>
    /\ notes' = <<>>
    /\ pc' = "exec"
    /\ UNCHANGED <<isearch, timers, timer_ran, tokens, prev_count, text, sel,
                   kill_ring, kill_index, kill, panel, win, center>>

\* the host runs the command that pre-dispatch left
Execute(o) ==
    /\ pc = "exec"
    /\ Becomes(run_command(World, cur, o))
    /\ pc' = "post"
    /\ UNCHANGED <<orig, cur, pre, timer_ran, notes, win>>

\* post-dispatch: the host calls on_post_text_command(view, cmd, args);
\* lines 170-171 make the cursors regions again under active mark
PostDispatch ==
    /\ pc = "post"
    /\ LET v == on_post_text_command(vs, cur.cmd)
       IN Becomes([World EXCEPT !.vs = v,
                                !.sel = IF v.active_mark
                                        THEN SelAddAll(<<>>, get_regions(v, sel))
                                        ELSE sel])
    /\ pc' = "idle"
    /\ UNCHANGED <<orig, cur, pre, timer_ran, notes, win>>

\* the host has changed the selection to s and calls on_selection_modified
OnSelectionModified(s) ==
    /\ vs.drag_count < MaxDrag
    /\ sel' = s
    /\ vs' = on_selection_modified(vs, Len(s), s[1])
    /\ notes' = Append(notes, [n |-> Len(s), this_cmd |-> vs.this_cmd])
    /\ UNCHANGED <<isearch, status, pc, orig, cur, pre, ran, timers, timer_ran,
                   tokens, prev_count, text, kill_ring, kill_index, kill, ran_open, panel, win,
                   center>>

\* the user types the character ch in the input panel: the host calls
\* on_change, between two commands
OnChange(ch) ==
    /\ pc = "idle"
    /\ panel # <<>>
    /\ Len(kill_ring) < MaxKills
    /\ Becomes(zap_process_cursors(World, ch, [modified |-> FALSE, sel |-> sel]))
    /\ UNCHANGED <<pc, orig, cur, pre, timer_ran, notes, win>>

\* a window command arrives and the host runs it; it may make another view
\* the active one
OnWindowCommand(target) ==
    /\ pc = "idle"
    /\ isearch => Len(win.checks) < MaxTimers
    /\ win' = [win EXCEPT !.active = target,
                          !.checks = on_window_command(@, isearch), !.tick = ~@,
                          !.note = [kind |-> "window_command", view |-> target,
                                    widget |-> FALSE]]
    /\ UNCHANGED <<vs, isearch, status, pc, orig, cur, pre, ran, timers, timer_ran,
                   tokens, prev_count, text, sel, kill_ring, kill_index, kill, ran_open, panel,
                   notes, center>>

\* the window command sbp_pane_cmd arrives with the sub-command cmd:
\* on_window_command, then SbpWindowCommand.run (lines 233-235)
PaneCmd(cmd) ==
    /\ pc = "idle"
    /\ isearch => Len(win.checks) < MaxTimers
    /\ win' = [win EXCEPT !.checks = on_window_command(@, isearch), !.tick = ~@,
                          !.note = [kind |-> cmd, view |-> win.active, widget |-> FALSE],
                          !.layout = pane_cmd(@, cmd)]
    /\ UNCHANGED <<vs, isearch, status, pc, orig, cur, pre, ran, timers, timer_ran,
                   tokens, prev_count, text, sel, kill_ring, kill_index, kill, ran_open, panel,
                   notes, center>>

\* the timer of on_window_command fires: check()
Check ==
    /\ pc = "idle"
    /\ win.checks # <<>>
    /\ isearch' = check(isearch, Head(win.checks), win.active)
    /\ win' = [win EXCEPT !.checks = Tail(@), !.tick = ~@,
                          !.note = [kind |-> "check", view |-> Head(win.checks),
                                    widget |-> FALSE]]
    /\ UNCHANGED <<vs, status, pc, orig, cur, pre, ran, timers, timer_ran,
                   tokens, prev_count, text, sel, kill_ring, kill_index, kill, ran_open, panel,
                   notes, center>>

\* a view got the focus, a view of the window or a widget such as the
\* search panel: the host calls on_activated_async
OnActivatedAsync(view, is_widget) ==
    /\ isearch' = on_activated_async(isearch, is_widget)
    /\ win' = [win EXCEPT !.active = IF is_widget THEN @ ELSE view, !.tick = ~@,
                          !.note = [kind |-> "activated", view |-> view,
                                    widget |-> is_widget]]
    /\ UNCHANGED <<vs, status, pc, orig, cur, pre, ran, timers, timer_ran,
                   tokens, prev_count, text, sel, kill_ring, kill_index, kill, ran_open, panel,
                   notes, center>>

\* a window command on the views arrives: on_window_command, then
\* SbpWindowCommand.run (lines 233-235), which needs an active view
ViewsCmd(wn, kind) ==
    /\ pc = "idle"
    /\ isearch => Len(win.checks) < MaxTimers
    /\ win.active \in ViewIds(win)
    /\ win' = [wn EXCEPT !.checks = on_window_command(@, isearch), !.tick = ~@,
                         !.note = [kind |-> kind, view |-> win.active, widget |-> FALSE]]
    /\ UNCHANGED <<vs, isearch, status, pc, orig, cur, pre, ran, timers, timer_ran,
                   tokens, prev_count, text, sel, kill_ring, kill_index, kill, ran_open, panel,
                   notes, center>>

\* sbp_close_older_views with n_windows
CloseOlder(n_windows, left) ==
    ViewsCmd(close_older_views(win, n_windows, left), "sbp_close_older_views")

\* the user goes to the view of another tab: the host gives it the focus
\* and ViewState notes that it was touched
Touch(view) ==
    /\ view \in ViewIds(win)
    /\ view # win.active
    /\ win' = [focus_view(win, view) EXCEPT
                  !.touched = <<view>> \o SelectSeq(@, LAMBDA x : x # view),
                  !.seen = [NoneSeen EXCEPT !.dedups = win.seen.dedups], !.tick = ~@,
                  !.note = [kind |-> "touch", view |-> view, widget |-> FALSE]]
    /\ UNCHANGED <<vs, isearch, status, pc, orig, cur, pre, ran, timers, timer_ran,
                   tokens, prev_count, text, sel, kill_ring, kill_index, kill, ran_open, panel,
                   notes, center>>

\* the buffer of a view is modified outside a command of this model: the
\* host calls on_modified on the view
OnModified(view) ==
    /\ pc = "idle"
    /\ view \in ViewIds(win)
    /\ vs' = IF view = TheView THEN on_modified(vs) ELSE vs
    /\ win' = [win EXCEPT !.dirty = @ \cup {ViewOf(win, view).buffer},
                          !.seen = [NoneSeen EXCEPT !.dedups = win.seen.dedups],
                          !.tick = ~@,
                          !.note = [kind |-> "modified", view |-> view, widget |-> FALSE]]
    /\ UNCHANGED <<isearch, status, pc, orig, cur, pre, ran, timers, timer_ran,
                   tokens, prev_count, text, sel, kill_ring, kill_index, kill, ran_open, panel,
                   notes, center>>

\* the buffer of a view is saved: the host calls on_post_save
Save(view) ==
    /\ pc = "idle"
    /\ view \in ViewIds(win)
    /\ win.callbacks < MaxSaves
    /\ win' = [on_post_save(win) EXCEPT
                  !.dirty = @ \ {ViewOf(win, view).buffer},
                  !.seen = [NoneSeen EXCEPT !.dedups = IF win.callbacks = 0 THEN 0
                                                      ELSE win.seen.dedups],
                  !.tick = ~@,
                  !.note = [kind |-> "saved", view |-> view, widget |-> FALSE]]
    /\ UNCHANGED <<vs, isearch, status, pc, orig, cur, pre, ran, timers, timer_ran,
                   tokens, prev_count, text, sel, kill_ring, kill_index, kill, ran_open, panel,
                   notes, center>>

\* a timer of on_post_save fires: doit
DedupTimer(left) ==
    /\ pc = "idle"
    /\ win.callbacks > 0
    /\ win' = [dedup_doit(win, left) EXCEPT
                  !.tick = ~@,
                  !.note = [kind |-> "doit", view |-> win.active, widget |-> FALSE]]
    /\ UNCHANGED <<vs, isearch, status, pc, orig, cur, pre, ran, timers, timer_ran,
                   tokens, prev_count, text, sel, kill_ring, kill_index, kill, ran_open, panel,
                   notes, center>>

\* a callback of sublime.set_timeout fires: doit of sbp_do_times, line 260
TimerFire(modified) ==
    /\ timers # <<>>
    /\ LET job == Head(timers)
           w   == doit([World EXCEPT !.ran = <<>>, !.timers = Tail(timers)],
                       job.inv, job.times, [modified |-> modified, sel |-> sel])
       IN /\ Becomes([w EXCEPT !.ran = ran, !.ran_open = ran_open])
          /\ timer_ran' = w.ran
    /\ UNCHANGED <<pc, orig, cur, pre, notes, win>>

-----------------------------------------------------------------------------
(* Spec: the whole pipeline on the commands a key binding can issue.       *)

MoveArgs ==
    {[by |-> "characters", forward |-> TRUE],
     [by |-> "characters", forward |-> FALSE],
     [by |-> "characters", forward |-> TRUE, extend |-> TRUE],
     [by |-> "characters", forward |-> FALSE, extend |-> FALSE]}

PrefixKeys == {"0", "3", "by_four", "negative"}

PipelineCmds ==
    {Invocation("move", a) : a \in MoveArgs}
      \cup {Invocation("move_to", [to |-> "eol"]),
            Invocation("move_to", [to |-> "eol", extend |-> TRUE]),
            Invocation("left_delete", NoArgs),
            Invocation("scroll_lines", [amount |-> 2]),
            Invocation("drag_select", NoArgs),
            Invocation("drag_select", [by |-> "words"]),
            Invocation("context_menu", NoArgs),
            Invocation("sbp_swap_point_and_mark", [toggle_active_mark_mode |-> TRUE]),
            Invocation("sbp_inc_search", [forward |-> TRUE]),
            Invocation("sbp_inc_search", [cmd |-> "done"])}
      \cup {Invocation("sbp_universal_argument", [value |-> t]) : t \in PrefixKeys}

Next ==
    \/ \E inv \in PipelineCmds :
          /\ Len(tokens) < MaxPrefixKeys \/ inv.cmd # "sbp_universal_argument"
          /\ PreDispatch(inv.cmd, inv.args)
    \/ \E m \in BOOLEAN : Execute([modified |-> m, sel |-> sel])
    \/ PostDispatch

Spec == Init /\ [][Next]_vars

-----------------------------------------------------------------------------
(* SpecArg: the prefix-argument accumulator on every key it is bound to,   *)
(* with the commands that use up the argument.                             *)

ArgCmds == {Invocation("move", [by |-> "characters", forward |-> TRUE])}

NextArg ==
    \/ \E t \in ArgTokens : PreDispatch("sbp_universal_argument", [value |-> t])
    \/ \E inv \in ArgCmds : PreDispatch(inv.cmd, inv.args)
    \/ Execute([modified |-> FALSE, sel |-> sel])
    \/ PostDispatch

SpecArg == Init /\ [][NextArg]_vars

-----------------------------------------------------------------------------
(* SpecKill: kill transactions by words on a buffer of BufLen characters  *)
(* with up to MaxCursors carets, with and without a prefix argument.       *)

RECURSIVE SortedCarets(_)
SortedCarets(S) ==
    IF S = {} THEN <<>>
    ELSE LET m == CHOOSE x \in S : \A y \in S : x <= y
         IN <<<<m, m>>>> \o SortedCarets(S \ {m})

\* the selections of 1 to n carets in a buffer of len characters
CaretSels(n, len) ==
    {SortedCarets(S) : S \in {T \in SUBSET (0..len) : Cardinality(T) \in 1..n}}

KillPrefixKeys == {"2", "negative"}

KillCmdsIssued ==
    {Invocation("sbp_move_then_delete", [move_cmd |-> "sbp_move_word", direction |-> d]) :
        d \in {1, -1}}
    \cup {Invocation("sbp_universal_argument", [value |-> k]) : k \in KillPrefixKeys}

InitKill == \E s \in CaretSels(MaxCursors, BufLen) : InitBut(s)

NextKill ==
    \/ \E inv \in KillCmdsIssued : PreDispatch(inv.cmd, inv.args)
    \/ Execute([modified |-> FALSE, sel |-> sel])
    \/ PostDispatch

SpecKill == InitKill /\ [][NextKill]_vars

-----------------------------------------------------------------------------
(* SpecZap: zap-to-char with its prompt, the finish command on its own,    *)
(* and a kill by words, with and without a prefix argument.                *)

ZapSels == {<<<<0, 0>>>>, <<<<0, 0>>, <<2, 2>>>>, <<<<4, 4>>>>}

ZapChars == {3, 4}

ZapCmds ==
    {Invocation("sbp_zap_to_char", NoArgs),
     Invocation("sbp_finish_move_then_delete", NoArgs),
     Invocation("sbp_move_then_delete", [move_cmd |-> "sbp_move_word", direction |-> 1])}
    \cup {Invocation("sbp_universal_argument", [value |-> k]) : k \in KillPrefixKeys}

InitZap == \E s \in ZapSels : InitBut(s)

NextZap ==
    \/ \E inv \in ZapCmds : PreDispatch(inv.cmd, inv.args)
    \/ Execute([modified |-> FALSE, sel |-> sel])
    \/ PostDispatch
    \/ \E ch \in ZapChars : OnChange(ch)

SpecZap == InitZap /\ [][NextZap]_vars

-----------------------------------------------------------------------------
(* SpecStale: zap-to-char with cursor motions while its prompt is open.    *)

StaleSels == {<<<<0, 0>>>>, <<<<2, 2>>>>, <<<<1, 1>>, <<4, 4>>>>}

StaleCmds ==
    {Invocation("sbp_zap_to_char", NoArgs),
     Invocation("sbp_zap_to_char", [plus_one |-> TRUE]),
     Invocation("move", [by |-> "characters", forward |-> TRUE])}

NextStale ==
    \/ \E inv \in StaleCmds : PreDispatch(inv.cmd, inv.args)
    \/ \E s \in StaleSels : Execute([modified |-> FALSE, sel |-> s])
    \/ PostDispatch
    \/ \E ch \in ZapChars : OnChange(ch)

SpecStale == Init /\ [][NextStale]_vars

-----------------------------------------------------------------------------
(* SpecSearch: a search session in a window of MaxViews views, with        *)
(* window commands, their deferred checks and changes of focus.            *)

SearchCmds ==
    {Invocation("sbp_inc_search", [forward |-> TRUE]),
     Invocation("left_delete", NoArgs)}

NextSearch ==
    \/ \E inv \in SearchCmds : win.active = TheView /\ PreDispatch(inv.cmd, inv.args)
    \/ \E m \in BOOLEAN : Execute([modified |-> m, sel |-> sel])
    \/ PostDispatch
    \/ \E v \in Views : OnWindowCommand(v)
    \/ Check
    \/ \E v \in Views, is_widget \in BOOLEAN : OnActivatedAsync(v, is_widget)

SpecSearch == Init /\ [][NextSearch]_vars

-----------------------------------------------------------------------------
(* SpecTokens: the commands that take a sub-command token, with tokens     *)
(* they know and tokens they do not.                                       *)

PaneTokens == {"split", "grow", "destroy", "move", "rotate"}

TokenCmds ==
    {Invocation("sbp_inc_search", [forward |-> TRUE]),
     Invocation("sbp_inc_search", [cmd |-> "next", forward |-> TRUE]),
     Invocation("sbp_inc_search", [cmd |-> "done"]),
     Invocation("sbp_inc_search", [cmd |-> "undo"])}
    \cup {Invocation("sbp_case_region", [mode |-> mo]) : mo \in {"upper", "lower", "title"}}

InitTokens == InitBut(<<<<0, 2>>>>)

NextTokens ==
    \/ \E inv \in TokenCmds : PreDispatch(inv.cmd, inv.args)
    \/ Execute([modified |-> FALSE, sel |-> sel])
    \/ PostDispatch
    \/ \E cmd \in PaneTokens : PaneCmd(cmd)
    \/ Check

SpecTokens == InitTokens /\ [][NextTokens]_vars

-----------------------------------------------------------------------------
(* SpecOlder: sbp_close_older_views on a window whose views are touched    *)
(* and modified in any order.                                              *)

\* the values of n_windows: none, fewer than the views, more than the views
NWindows == {-1, 0, 1, 2, 10}

NextOlder ==
    \/ \E n \in NWindows, left \in BOOLEAN : CloseOlder(n, left)
    \/ \E v \in Views : Touch(v)
    \/ \E v \in Views : OnModified(v)

SpecOlder == Init /\ [][NextOlder]_vars

-----------------------------------------------------------------------------
(* SpecDedup: saves and their deferred dedups in windows of up to MaxViews *)
(* views of up to MaxBuffers buffers in MaxGroups groups.                  *)

\* the tabs of a window with n views: window.views() lists them group by
\* group; the buffer ids are given in the order the buffers first appear
DedupTabs(n) ==
    {tabs \in [1..n -> [id : 1..n, buffer : 1..MaxBuffers, group : 0..(MaxGroups - 1)]] :
        /\ \A i \in 1..n : tabs[i].id = i
        /\ \A i \in 1..(n - 1) : tabs[i].group <= tabs[i + 1].group
        /\ \A i \in 1..n : tabs[i].buffer = 1
                             \/ \E j \in 1..(i - 1) : tabs[j].buffer = tabs[i].buffer - 1}

\* the windows with these tabs: every group with views has one of them
\* active, and the window's active view is the one of group 0 or, when
\* group 0 is empty, of the group of the first tab
DedupWindows ==
    {[InitWindow EXCEPT !.views = tabs, !.touched = [i \in 1..Len(tabs) |-> i],
                        !.focus = f, !.active = f[tabs[1].group],
                        !.layout = [groups |-> MaxGroups, group |-> tabs[1].group,
                                    size |-> 0]] :
        tabs \in UNION {DedupTabs(n) : n \in 1..MaxViews},
        f \in [0..(MaxGroups - 1) -> 0..MaxViews]}

\* a window whose focus agrees with its tabs
Coherent(wn) ==
    \A g \in 0..(MaxGroups - 1) :
        IF \E i \in 1..Len(wn.views) : wn.views[i].group = g
        THEN \E i \in 1..Len(wn.views) :
                 wn.views[i].group = g /\ wn.views[i].id = wn.focus[g]
        ELSE wn.focus[g] = 0

InitDedup == \E wn \in DedupWindows : Coherent(wn) /\ InitWith(<<<<0, 0>>>>, wn)

NextDedup ==
    \/ \E v \in Views : OnModified(v)
    \/ \E v \in Views : Save(v)
    \/ \E left \in BOOLEAN : DedupTimer(left)

SpecDedup == InitDedup /\ [][NextDedup]_vars

-----------------------------------------------------------------------------
(* SpecTimes: repeated commands, undo and redo among them, and the timer   *)
(* callbacks sbp_do_times leaves behind.                                   *)

TimesCmds ==
    {Invocation("undo", NoArgs),
     Invocation("redo", NoArgs),
     Invocation("left_delete", NoArgs),
     Invocation("sbp_do_times", [cmd |-> "redo", _times |-> 2]),
     Invocation("sbp_universal_argument", [value |-> "3"])}

NextTimes ==
    \/ \E inv \in TimesCmds : PreDispatch(inv.cmd, inv.args)
    \/ \E m \in BOOLEAN : Execute([modified |-> m, sel |-> sel])
    \/ PostDispatch
    \/ \E m \in BOOLEAN : TimerFire(m)

SpecTimes == Init /\ [][NextTimes]_vars

-----------------------------------------------------------------------------
(* SpecModified: buffer modifications, by commands and from outside them,  *)
(* with active mark mode on and off.                                       *)

ModifiedCmds ==
    {Invocation("move", [by |-> "characters", forward |-> TRUE]),
     Invocation("left_delete", NoArgs),
     Invocation("sbp_set_mark", NoArgs),
     Invocation("sbp_swap_point_and_mark", [toggle_active_mark_mode |-> TRUE]),
     Invocation("sbp_case_region", [mode |-> "upper"])}

\* where a motion can leave the cursor
ModifiedSels == {<<<<0, 0>>>>, <<<<2, 2>>>>}

NextModified ==
    \/ \E inv \in ModifiedCmds : PreDispatch(inv.cmd, inv.args)
    \/ \E m \in BOOLEAN, s \in ModifiedSels : Execute([modified |-> m, sel |-> s])
    \/ PostDispatch
    \/ OnModified(TheView)

SpecModified == Init /\ [][NextModified]_vars

-----------------------------------------------------------------------------
(* SpecYank: sbp_yank and its pop, after other commands and after itself,  *)
(* with a kill ring of two entries.                                        *)

YankRing ==
    <<[regions |-> <<<<7>>>>, forward |-> TRUE, join |-> FALSE],
      [regions |-> <<<<8, 9>>>>, forward |-> TRUE, join |-> FALSE]>>

YankCmds ==
    {Invocation("sbp_yank", NoArgs),
     Invocation("sbp_yank", [pop |-> 1]),
     Invocation("sbp_set_mark", NoArgs)}

YankSels == {<<<<0, 0>>>>, <<<<1, 1>>, <<3, 3>>>>}

InitYank == \E s \in YankSels : InitRing(s, InitWindow, YankRing)

NextYank ==
    \/ \E inv \in YankCmds :
          /\ inv.cmd = "sbp_yank" => Len(text) < BufLen + MaxYanked
          /\ PreDispatch(inv.cmd, inv.args)
    \/ Execute([modified |-> FALSE, sel |-> sel])
    \/ PostDispatch

SpecYank == InitYank /\ [][NextYank]_vars

-----------------------------------------------------------------------------
(* SpecRegion: sbp_kill_region, killing and copying, with and without a    *)
(* mark, with one cursor and with two.                                     *)

RegionCmds ==
    {Invocation("sbp_kill_region", NoArgs),
     Invocation("sbp_kill_region", [is_copy |-> TRUE]),
     Invocation("sbp_set_mark", NoArgs),
     Invocation("sbp_swap_point_and_mark", [toggle_active_mark_mode |-> TRUE]),
     Invocation("move", [by |-> "characters", forward |-> TRUE])}

RegionSels ==
    {<<<<0, 0>>>>, <<<<3, 3>>>>, <<<<0, 0>>, <<1, 1>>>>, <<<<3, 3>>, <<4, 4>>>>}

InitRegion == \E s \in RegionSels : InitBut(s)

\* a motion keeps the number of cursors
NextRegion ==
    \/ \E inv \in RegionCmds : PreDispatch(inv.cmd, inv.args)
    \/ \E s \in RegionSels : Len(s) = Len(sel) /\ Execute([modified |-> FALSE, sel |-> s])
    \/ PostDispatch

SpecRegion == InitRegion /\ [][NextRegion]_vars

-----------------------------------------------------------------------------
(* SpecCenter: sbp_center_view with motions between, one and two cursors.  *)

CenterSels == {<<<<0, 0>>>>, <<<<1, 1>>>>, <<<<0, 0>>, <<2, 2>>>>}

CenterCmds ==
    {Invocation("sbp_center_view", NoArgs),
     Invocation("sbp_center_view", [center_only |-> TRUE]),
     Invocation("sbp_universal_argument", [value |-> "2"]),
     Invocation("move", [by |-> "characters", forward |-> TRUE])}

NextCenter ==
    \/ \E inv \in CenterCmds : PreDispatch(inv.cmd, inv.args)
    \/ \E s \in CenterSels : Execute([modified |-> FALSE, sel |-> s])
    \/ PostDispatch

SpecCenter == Init /\ [][NextCenter]_vars

-----------------------------------------------------------------------------
(* SpecDrag: mouse drags and the selection notifications they cause, with  *)
(* an edit between.                                                        *)

DragSels == {<<<<3, 1>>>>, <<<<0, 1>>, <<2, 3>>>>}

DragCmds ==
    {Invocation("drag_select", NoArgs),
     Invocation("drag_select", [by |-> "words"]),
     Invocation("left_delete", NoArgs)}

NextDrag ==
    \/ \E inv \in DragCmds : PreDispatch(inv.cmd, inv.args)
    \/ \E m \in BOOLEAN : Execute([modified |-> m, sel |-> sel])
    \/ PostDispatch
    \/ \E s \in DragSels : OnSelectionModified(s)

SpecDrag == Init /\ [][NextDrag]_vars

-----------------------------------------------------------------------------
(* SpecMark: setting and popping the mark, with motions between.           *)

MarkSels == {<<<<0, 0>>>>, <<<<2, 2>>>>, <<<<1, 1>>, <<3, 3>>>>}

MarkCmds ==
    {Invocation("sbp_set_mark", NoArgs),
     Invocation("sbp_universal_argument", [value |-> "2"]),
     Invocation("sbp_swap_point_and_mark", [toggle_active_mark_mode |-> TRUE]),
     Invocation("sbp_inc_search", [forward |-> TRUE]),
     Invocation("move", [by |-> "characters", forward |-> TRUE])}

NextMark ==
    \/ \E inv \in MarkCmds : PreDispatch(inv.cmd, inv.args)
    \/ \E s \in MarkSels : Execute([modified |-> FALSE, sel |-> s])
    \/ PostDispatch

SpecMark == Init /\ [][NextMark]_vars

-----------------------------------------------------------------------------
(* The claims.                                                             *)

\* a dispatch is past on_text_command: orig, cur and pre describe it
Dispatched == pc \in {"exec", "post"}

\* on_text_command turned the incoming command into sbp_do_times
Repeated == Dispatched /\ cur.cmd = "sbp_do_times" /\ orig.cmd # "sbp_do_times"

\* the arguments sbp_do_times hands to the command it repeats
Kept == Without(cur.args, {"cmd", "_times"})

\* C1: whenever a prefix argument with count N is supplied and a repeatable
\* command arrives, on_text_command turns it into sbp_do_times with the
\* command and _times = abs(N), and the command then runs abs(N) times.
C1_RepeatedAbsNTimes ==
    (Dispatched /\ pre.supplied /\ orig.cmd \in repeatable_cmds) =>
        /\ cur.cmd = "sbp_do_times"
        /\ cur.args["cmd"] = orig.cmd
        /\ cur.args["_times"] = Abs(pre.count)
        /\ pc = "post" =>
              /\ Len(ran) = Abs(pre.count)
              /\ \A i \in 1..Len(ran) : ran[i].cmd = orig.cmd

\* C2: when a repeatable command is rewritten with a negative count N and
\* its args hold a forward flag, the flag is inverted once, the same for
\* every run, and the command runs abs(N) times; with no forward flag, or
\* with N > 0, every argument of the command is as it arrived.
C2_ForwardInvertedOnce ==
    Repeated =>
        /\ cur.args["_times"] = Abs(pre.count)
        /\ cur.args["cmd"] = orig.cmd
        /\ DOMAIN Kept = DOMAIN orig.args
        /\ (pre.count < 0 /\ Has(orig.args, "forward")) =>
              /\ Kept["forward"] = ~orig.args["forward"]
              /\ \A k \in DOMAIN orig.args \ {"forward"} : Kept[k] = orig.args[k]
        /\ (~Has(orig.args, "forward") \/ pre.count > 0) => Kept = orig.args
        /\ pc = "post" =>
              /\ Len(ran) = Abs(pre.count)
              /\ \A i \in 1..Len(ran) : ran[i] = Invocation(orig.cmd, Kept)

\* C2, witness: a move forward repeated with count -3 has run three times
C2_Witness ==
    /\ pc = "post" /\ Repeated
    /\ orig.cmd = "move" /\ orig.args["forward"] = TRUE
    /\ pre.count = -3
    /\ Len(ran) = 3

\* C3: right after post-dispatch of a command that is not one of the
\* package's, argument_supplied is false and argument_value is 0.
C3_ArgumentResetAfterCommand ==
    (pc = "idle" /\ cur.cmd # None /\ ~IsSbp(cur.cmd)) =>
        ~vs.argument_supplied /\ vs.argument_value = 0

\* C3, witness: scroll_lines arrived with an argument of two keys and has
\* been through post-dispatch
C3_Witness ==
    /\ pc = "idle" /\ cur.cmd = "scroll_lines"
    /\ pre.supplied /\ pre.count = -3
    /\ ~vs.argument_supplied

\* C4 as claimed: under active mark every move or move_to that arrives
\* without extend=true is dispatched under its own name with extend=true
\* and its other arguments unchanged.
C4_ExtendInjected ==
    (Dispatched /\ pre.active_mark /\ orig.cmd \in {"move", "move_to"}
       /\ ~Get(orig.args, "extend", FALSE)) =>
        cur = Invocation(orig.cmd, Put(orig.args, "extend", TRUE))

\* C4, amended: under active mark, and with no incremental-search session
\* open for the view, every move or move_to that arrives without
\* extend=true is dispatched under its own name with extend=true and its
\* other arguments unchanged, and that is the command the host runs.
C4_ExtendInjectedOutsideSearch ==
    (Dispatched /\ pre.active_mark /\ ~pre.isearch
       /\ orig.cmd \in {"move", "move_to"} /\ ~Get(orig.args, "extend", FALSE)) =>
        /\ cur = Invocation(orig.cmd, Put(orig.args, "extend", TRUE))
        /\ pc = "post" => ran = <<cur>>

\* C4, witness: a move_to without extend arrived under active mark and ran
\* with extend=true
C4_Witness ==
    /\ pc = "post" /\ pre.active_mark /\ ~pre.isearch
    /\ orig = Invocation("move_to", [to |-> "eol"])
    /\ ran = <<Invocation("move_to", [to |-> "eol", extend |-> TRUE])>>

\* C10: the _times that on_text_command passes to sbp_do_times is at least 1.
C10_TimesAtLeastOne == Repeated => cur.args["_times"] >= 1

-----------------------------------------------------------------------------
(* The claims about the accumulator, under SpecArg.                        *)

AllDigits(s) == \A i \in 1..Len(s) : s[i] \in DigitTokens

Front(s) == SubSeq(s, 1, Len(s) - 1)

Last(s) == s[Len(s)]

\* the base-10 integer a sequence of digit keys spells
RECURSIVE Spell(_)
Spell(s) == IF s = <<>> THEN 0 ELSE Spell(Front(s)) * 10 + IntOf(Last(s))

RECURSIVE Pow4(_)
Pow4(k) == IF k = 0 THEN 1 ELSE 4 * Pow4(k - 1)

\* C7: after a non-empty sequence of digit keys fed from the reset state
\* the accumulated value is the base-10 integer the digits spell; one
\* trailing "negative" makes the count the negation of that integer.
C7_DigitsSpellBase10 ==
    /\ (tokens # <<>> /\ AllDigits(tokens)) =>
          vs.argument_supplied /\ vs.argument_value = Spell(tokens)
    /\ (Len(tokens) >= 2 /\ AllDigits(Front(tokens)) /\ Last(tokens) = "negative"
          /\ ~vs.argument_negative) =>
          vs.argument_supplied /\ get_count(vs) = -Spell(Front(tokens))

\* C7, witness: the keys 4 and 2 have been fed and the value is 42
C7_Witness == tokens = <<"4", "2">> /\ vs.argument_value = 42 /\ pc = "idle"

\* C8: "by_four" fed k >= 1 times, and nothing else, from the reset state
\* gives argument_value = 4^k with argument_supplied true.
C8_ByFourPowers ==
    (tokens # <<>> /\ \A i \in 1..Len(tokens) : tokens[i] = "by_four") =>
        vs.argument_supplied /\ vs.argument_value = Pow4(Len(tokens))

\* C8, witness: "by_four" fed twice, the value is 16
C8_Witness ==
    tokens = <<"by_four", "by_four">> /\ vs.argument_value = 16 /\ pc = "idle"

\* C9: every "negative" key negates the count the keys before it gave, be
\* it the first key or a later one.
C9_NegativeFlipsCount ==
    (tokens # <<>> /\ Last(tokens) = "negative") => get_count(vs) = -prev_count

-----------------------------------------------------------------------------
(* The claims about the kill transaction, under SpecKill.                  *)

\* a kill has just run: kill[1] is what finish saw
Killed == pc = "post" /\ cur.cmd = "sbp_move_then_delete" /\ kill # <<>>

\* two kill regions [begin, end) share a character
SharesText(r1, r2) == Begin(r1) < End(r2) /\ Begin(r2) < End(r1)

PairwiseApart(rs) ==
    \A i, j \in 1..Len(rs) : i < j => ~SharesText(rs[i], rs[j])

\* the characters of t outside every region of rs, in order
TextOutside(t, rs) ==
    LET keep(c) == \A i \in 1..Len(rs) : ~(Begin(rs[i]) < c /\ c <= End(rs[i]))
        idx == [c \in 1..Len(t) |-> c]
    IN [i \in 1..Len(SelectSeq(idx, keep)) |-> t[SelectSeq(idx, keep)[i]]]

\* C5: when the kill regions paired from the snapshot and the moved cursors
\* are pairwise non-overlapping, finish deletes exactly their text and
\* leaves one collapsed cursor per region.
C5_DisjointRegionsDeleted ==
    (Killed /\ PairwiseApart(kill[1].regions)) =>
        /\ text = TextOutside(kill[1].text, kill[1].regions)
        /\ Len(sel) = Len(kill[1].regions)
        /\ \A i \in 1..Len(sel) : IsEmpty(sel[i])

\* a kill region begins inside the kill region before it
BeginsInsidePrevious(rs) ==
    \E i \in 1..(Len(rs) - 1) :
        Begin(rs[i]) <= Begin(rs[i + 1]) /\ Begin(rs[i + 1]) < End(rs[i])

\* C6: whenever a kill region begins inside the one before it, finish
\* deletes nothing, adds nothing to the kill ring and leaves the selection
\* equal to the cursors snapshotted at open.
C6_OverlapAborts ==
    (Killed /\ BeginsInsidePrevious(kill[1].regions)) =>
        /\ text = kill[1].text
        /\ Len(kill_ring) = kill[1].kills
        /\ sel = kill[1].orig

-----------------------------------------------------------------------------
(* The claims about the search session, the mark and the mouse.            *)

\* C11: while a search session is open for the view, every incoming command
\* but sbp_inc_search and sbp_inc_search_escape is replaced at pre-dispatch
\* by sbp_inc_search_escape carrying the command and its args; the escape
\* closes the session before it re-issues the command, so the command never
\* runs while the session is open.
C11_SearchEscapedFirst ==
    (Dispatched /\ pre.isearch
       /\ orig.cmd \notin {"sbp_inc_search", "sbp_inc_search_escape"}) =>
        /\ cur = Invocation("sbp_inc_search_escape",
                            [next_cmd |-> orig.cmd, next_args |-> orig.args])
        /\ \A i \in 1..Len(ran_open) : ~ran_open[i]
        /\ pc = "post" =>
              /\ ~isearch
              /\ ~IsSbp(orig.cmd) => ran = <<orig>>

\* C11, witness: left_delete arrived during a search and ran after the
\* session was closed
C11_Witness ==
    /\ pc = "post" /\ pre.isearch /\ orig.cmd = "left_delete"
    /\ ran = <<orig>> /\ ran_open = <<FALSE>> /\ ~isearch

\* C12: from any reachable state, two sbp_set_mark in a row, neither with
\* a prefix argument and nothing between them, leave active mark enabled.
C12_SetMarkTwiceEnables ==
    (pc \in {"post", "idle"} /\ orig.cmd = "sbp_set_mark" /\ ~pre.supplied
       /\ pre.last_cmd = "sbp_set_mark") =>
        vs.active_mark

-----------------------------------------------------------------------------
(* The claims about mouse drags, under SpecDrag.                           *)

\* the notifications since pre-dispatch that found one region
Singles == {i \in 1..Len(notes) : notes[i].n = 1}

\* a drag_select went through on_text_command, which set drag_count
Dragged(multi) ==
    /\ orig.cmd = "drag_select" /\ ~pre.isearch
    /\ Has(orig.args, "by") = multi

\* the mark is the start point of the selection's one region
MarkAtStart ==
    /\ vs.mark_ring # <<>>
    /\ vs.mark_ring[Len(vs.mark_ring)] = <<<<sel[1][1], sel[1][1]>>>>

\* C13 as claimed: after a drag_select with a 'by' argument the first
\* notification with exactly one region sets the mark to the region's start
\* and enables active mark.
C13_FirstSingleSetsMark ==
    (Dragged(TRUE) /\ Cardinality(Singles) = 1 /\ Len(notes) \in Singles) =>
        vs.active_mark /\ MarkAtStart

\* C13, amended: after a drag_select with a 'by' argument the first
\* notification, when it has exactly one region, sets the mark to the
\* region's start and enables active mark; when it has several regions no
\* notification of this drag sets a mark.
C13_FirstNoteSetsMark ==
    /\ (Dragged(TRUE) /\ Len(notes) = 1 /\ notes[1].n = 1) =>
          vs.active_mark /\ MarkAtStart
    /\ (Dragged(TRUE) /\ notes # <<>> /\ notes[1].n # 1) =>
          vs.mark_ring = pre.mark_ring

\* C13, witness: a drag by words, one notification of the region <<3, 1>>,
\* the mark at 3
C13_Witness ==
    /\ Dragged(TRUE) /\ Len(notes) = 1 /\ notes[1].n = 1
    /\ sel = <<<<3, 1>>>> /\ vs.active_mark
    /\ vs.mark_ring[Len(vs.mark_ring)] = <<<<3, 3>>>>

\* C19 as claimed: a notification increments drag_count only when there is
\* exactly one region and this_cmd is drag_select; otherwise it leaves
\* drag_count as it is.
C19_CountsDragNotesOnly ==
    vs.drag_count = pre.drag_count
        + Cardinality({i \in Singles : notes[i].this_cmd = "drag_select"})

\* C19, amended: every selection-changed notification increments
\* drag_count by one, whatever the number of regions and whatever this_cmd.
C19_CountsEveryNote == vs.drag_count = pre.drag_count + Len(notes)

\* C19, witness: one notification of two regions after a left_delete, and
\* drag_count has gone up
C19_Witness ==
    /\ orig.cmd = "left_delete" /\ Len(notes) = 1 /\ notes[1].n = 2
    /\ vs.drag_count = pre.drag_count + 1

\* C20 as claimed: after a plain drag_select the first two single-region
\* notifications do not enable active mark, the first forcing it off, and
\* the next one enables it with the mark at the region's start.
C20_ThirdSingleEnables ==
    Dragged(FALSE) =>
        /\ Cardinality(Singles) \in {1, 2} => ~vs.active_mark
        /\ (Cardinality(Singles) = 3 /\ Len(notes) \in Singles) =>
              vs.active_mark /\ MarkAtStart

\* C20, amended: after a plain drag_select, as long as every notification
\* has exactly one region, the first two do not enable active mark, the
\* first forcing it off, and the third enables it with the mark at the
\* region's start; after a multi-click drag_select the first does.
C20_ThirdNoteEnables ==
    /\ (Dragged(FALSE) /\ Singles = 1..Len(notes)) =>
          /\ Len(notes) \in {1, 2} => ~vs.active_mark
          /\ Len(notes) = 3 => vs.active_mark /\ MarkAtStart
    /\ (Dragged(TRUE) /\ Singles = 1..Len(notes) /\ Len(notes) = 1) =>
          vs.active_mark /\ MarkAtStart

\* C20, witness: a plain drag that began under active mark, three
\* notifications of one region, active mark on again
C20_Witness ==
    /\ Dragged(FALSE) /\ pre.active_mark
    /\ Len(notes) = 3 /\ Singles = {1, 2, 3}
    /\ vs.active_mark /\ MarkAtStart

-----------------------------------------------------------------------------
(* The claims about the command history.                                   *)

\* C17: after post-dispatch of a command that does not start with 'sbp_',
\* last_cmd is the command that pre-dispatch recorded in this_cmd, also when
\* the command modified the buffer and on_modified cleared this_cmd between
\* pre- and post-dispatch.
C17_LastCmdIsRecorded ==
    (pc = "idle" /\ cur.cmd # None /\ ~IsSbp(cur.cmd)) =>
        /\ vs.last_cmd = pre.this_cmd
        /\ vs.last_cmd = orig.cmd

\* C17, witness: left_delete modified the buffer, on_modified cleared
\* this_cmd, and post-dispatch has recorded left_delete in last_cmd
C17_Witness ==
    /\ pc = "idle" /\ cur.cmd = "left_delete" /\ pre.this_cmd = "left_delete"
    /\ vs.this_cmd = None /\ vs.last_cmd = "left_delete"

-----------------------------------------------------------------------------
(* The claims about the pending kill transaction.                          *)

\* a transaction opened by sbp_zap_to_char has been finished from the prompt
Zapped ==
    /\ pc = "idle" /\ orig.cmd = "sbp_zap_to_char" /\ panel = <<>>
    /\ kill # <<>>

\* C14: at most one kill transaction is pending: a helper is put in
\* pending_move_then_delete_helper only when the slot is empty, and the
\* finish command empties the slot before it finishes, so between any two
\* steps of zap commands, prompt callbacks and finish commands the slot is
\* empty and no helper was stored over one that was not finished.
C14_OnePending ==
    /\ vs.pending_move_then_delete_helper = <<>>
    /\ kill # <<>> => ~kill[1].over

\* C14, witness: a zap was finished from its prompt and deleted text
C14_Witness == Zapped /\ ~kill[1].aborted /\ Len(text) < BufLen

\* C15: sbp_finish_move_then_delete run with no transaction pending deletes
\* no text, adds nothing to the kill ring and leaves the selection as it was.
C15_FinishWithoutPending ==
    [][(pc = "exec" /\ cur.cmd = "sbp_finish_move_then_delete"
          /\ vs.pending_move_then_delete_helper = <<>>) =>
        (text' = text /\ kill_ring' = kill_ring /\ sel' = sel)]_vars

\* C15, witness: the finish command was dispatched with nothing pending
\* and has run
C15_Witness ==
    /\ pc = "post" /\ cur.cmd = "sbp_finish_move_then_delete"
    /\ vs.pending_move_then_delete_helper = <<>>
    /\ kill_ring = <<>> /\ sel = pre.sel /\ Len(text) = BufLen

\* C18: for every kill transaction, that of zap-to-char included, the
\* forward tag given to the kill ring is (signed count > 0), the signed
\* count being the prefix count, times the direction argument when given,
\* at the time the transaction was opened.
C18_ForwardIsCountPositive ==
    (kill # <<>> /\ ~kill[1].aborted) =>
        kill_ring[kill[1].kills + 1].forward = (kill[1].count > 0)

-----------------------------------------------------------------------------
(* The claims about post-dispatch and the end of a drag.                   *)

\* post-dispatch finds a drag just ended: active mark on, last_cmd is
\* drag_select and this_cmd is not
DragEnded ==
    vs.active_mark /\ vs.last_cmd = "drag_select" /\ vs.this_cmd # "drag_select"

\* C21: at post-dispatch, when active mark is on, the previous command was
\* drag_select and the current one is not, active mark is turned off unless
\* the finished command is context_menu; in every other state post-dispatch
\* leaves active mark as it is.
C21_DragEndTurnsMarkOff ==
    [][(pc = "post" /\ pc' = "idle") =>
        vs'.active_mark =
            (vs.active_mark /\ ~(DragEnded /\ cur.cmd # "context_menu"))]_vars

\* C21, witness: a command after a drag found active mark on and
\* post-dispatch has turned it off
C21_Witness ==
    /\ pc = "idle" /\ pre.active_mark /\ pre.last_cmd = "drag_select"
    /\ cur.cmd \notin {None, "drag_select", "context_menu"} /\ ~IsSbp(cur.cmd)
    /\ vs.last_cmd = cur.cmd /\ vs.this_cmd = cur.cmd /\ ~vs.active_mark

-----------------------------------------------------------------------------
(* The claims about Finish of a kill transaction.                          *)

\* the cursors of the last transaction were carets, at Open and at Finish
CaretsOnly ==
    /\ \A i \in 1..Len(kill[1].orig) : IsEmpty(kill[1].orig[i])
    /\ \A i \in 1..Len(kill[1].new) : IsEmpty(kill[1].new[i])

\* C22: for each index i the kill region formed at Finish from orig[i] and
\* new[i] runs from the smaller of the two positions to the larger one,
\* whether the cursor moved forward or backward from its snapshot.
C22_KillRegionIsMinMax ==
    kill # <<>> =>
        /\ CaretsOnly
        /\ Len(kill[1].regions) = Min2(Len(kill[1].orig), Len(kill[1].new))
        /\ \A i \in 1..Len(kill[1].regions) :
              /\ Begin(kill[1].regions[i]) = Min2(kill[1].orig[i][1], kill[1].new[i][1])
              /\ End(kill[1].regions[i]) = Max2(kill[1].orig[i][1], kill[1].new[i][1])

\* C22, witness: a transaction with two cursors that moved backward
C22_Witness ==
    /\ kill # <<>> /\ Len(kill[1].regions) = 2
    /\ \A i \in 1..2 : kill[1].new[i][1] < kill[1].orig[i][1]

\* C23: in a successful Finish the kill ring gets exactly one add, holding
\* the text of all kill regions in order as it was before any region was
\* erased, tagged with the transaction's forward flag and with join true
\* exactly when the command before was a kill command.
C23_OneAddBeforeErase ==
    (kill # <<>> /\ ~kill[1].aborted) =>
        LET k       == kill[1]
            cursors == SelAddAll(<<>>, k.regions)
        IN /\ Len(kill_ring) = k.kills + 1
           /\ kill_ring[k.kills + 1] =
                 [regions |-> [i \in 1..Len(cursors) |-> Substr(k.text, cursors[i])],
                  forward |-> k.forward,
                  join |-> k.last_cmd \in KillCmds]

\* C23, witness: a kill that followed a kill command took text away and
\* was added with join true
C23_Witness ==
    /\ kill # <<>> /\ ~kill[1].aborted /\ Len(text) < Len(kill[1].text)
    /\ kill_ring[kill[1].kills + 1].join
    /\ kill_ring[kill[1].kills + 1].regions[1] # <<>>

\* C24: a zap-to-char does not act on stale state: when other commands
\* moved the cursors between the zap and the character typed, Finish
\* deletes no text but what the zap's own jump swept over, from where the
\* cursor stood when the character was typed to where the jump left it.
C24_ZapDeletesOnlySwept ==
    (kill # <<>> /\ ~kill[1].aborted) =>
        \A i \in 1..Min2(Len(kill[1].regions), Len(kill[1].from)) :
            /\ Min2(kill[1].from[i][1], kill[1].new[i][1]) <= Begin(kill[1].regions[i])
            /\ End(kill[1].regions[i]) <= Max2(kill[1].from[i][1], kill[1].new[i][1])

-----------------------------------------------------------------------------
(* The claims about conditions that are no errors.                         *)

\* C25: popping an empty mark ring and a kill transaction whose regions
\* overlap each set a status message and leave the buffer text and the
\* kill ring unchanged.
C25_NoOpsReported ==
    /\ (pc = "post" /\ cur.cmd = "sbp_set_mark" /\ pre.supplied
           /\ pre.mark_ring = <<>>) =>
          status # "" /\ Len(text) = BufLen /\ kill_ring = <<>>
    /\ (pc = "post" /\ cur.cmd = "sbp_move_then_delete" /\ kill # <<>>
           /\ kill[1].aborted) =>
          status # "" /\ text = kill[1].text /\ Len(kill_ring) = kill[1].kills

-----------------------------------------------------------------------------
(* The claims about the hooks and the commands of the package.             *)

\* the fields of the view state that the two hooks keep for other commands
History(v) ==
    <<v.this_cmd, v.last_cmd, v.argument_value, v.argument_supplied>>

\* C26: pre-dispatch records this_cmd, and post-dispatch resets the
\* argument and sets last_cmd, only for commands whose name does not start
\* with 'sbp_'; for a command that does, both hooks leave this_cmd,
\* last_cmd, argument_value and argument_supplied as they are.
C26_HooksLeaveSbpAlone ==
    [][/\ (pc = "idle" /\ pc' = "exec") =>
             IF IsSbp(orig'.cmd) THEN History(vs') = History(vs)
             ELSE ~isearch => vs'.this_cmd = orig'.cmd
       /\ (pc = "post" /\ pc' = "idle") =>
             IF IsSbp(cur.cmd) THEN History(vs') = History(vs)
             ELSE History(vs') = <<vs.this_cmd, cur.cmd, 0, FALSE>>]_vars

\* C26, witness: sbp_universal_argument has been through both hooks after
\* a move, and the argument it built and the move in last_cmd are kept
C26_Witness ==
    /\ pc = "idle" /\ cur.cmd = "sbp_universal_argument"
    /\ vs.argument_supplied /\ vs.argument_value = 3
    /\ vs.last_cmd = "move" /\ vs.this_cmd = "sbp_universal_argument"

\* C27: when scroll_lines arrives with an argument of count N, pre-dispatch
\* returns scroll_lines itself with amount multiplied by the signed N,
\* not wrapped in sbp_do_times, and the command then runs exactly once.
C27_ScrollAmountTimesCount ==
    (Dispatched /\ orig.cmd = "scroll_lines" /\ pre.supplied) =>
        /\ cur = Invocation("scroll_lines",
                            Put(orig.args, "amount", orig.args["amount"] * pre.count))
        /\ pc = "post" => ran = <<cur>>

\* C27, witness: scroll_lines arrived with the count -3 and has run
C27_Witness ==
    /\ pc = "post" /\ orig = Invocation("scroll_lines", [amount |-> 2])
    /\ pre.supplied /\ pre.count = -3
    /\ ran = <<Invocation("scroll_lines", [amount |-> -6])>>

-----------------------------------------------------------------------------
(* The claims about the search session and the window.                     *)

\* C28: an open search session is cancelled on window-level navigation:
\* the deferred check of a window command ends the session when the
\* window's active view is by then not the session's view and leaves it
\* open otherwise; a window command itself only schedules that check, when
\* a session is open; the activation of a view that is no widget ends the
\* session it finds.
C28_SessionEndsOnNavigation ==
    [][win'.tick # win.tick =>
        CASE win'.note.kind = "check" ->
               isearch' = (isearch /\ win.active = TheView)
          [] win'.note.kind = "window_command" ->
               /\ isearch' = isearch
               /\ Len(win'.checks) = Len(win.checks) + (IF isearch THEN 1 ELSE 0)
          [] win'.note.kind = "activated" ->
               isearch' = (isearch /\ win'.note.widget)]_vars

\* C28, witness: a window command went to another view during a search
\* and its check has ended the session
C28_Witness ==
    /\ win.note.kind = "check" /\ win.active # TheView /\ ~isearch
    /\ vs.last_cmd = "sbp_inc_search" /\ pc = "idle" /\ cur.cmd = "sbp_inc_search"

\* C29: a sub-command token that is not known is ignored: sbp_inc_search
\* with an unknown cmd while a session is open changes neither the session
\* nor the buffer, sbp_pane_cmd with an unknown cmd changes no layout and
\* no focus, and sbp_case_region with an unknown mode replaces no text.
C29_UnknownTokenIgnored ==
    [][/\ (pc = "exec" /\ pc' = "post" /\ cur.cmd = "sbp_inc_search" /\ isearch
            /\ Has(cur.args, "cmd")
            /\ Get(cur.args, "cmd", None) \notin SessionCmds \cup {"done", "quit"}) =>
             (isearch' /\ text' = text /\ sel' = sel)
       /\ (pc = "exec" /\ pc' = "post" /\ cur.cmd = "sbp_case_region"
            /\ cur.args["mode"] \notin {"upper", "lower"}) =>
             text' = text
       /\ (win'.tick # win.tick
            /\ win'.note.kind \notin {"split", "grow", "destroy", "move", "switch_tab",
                                       "window_command", "check", "activated"}) =>
             (win'.layout = win.layout /\ win'.active = win.active)]_vars

\* C29, witness: sbp_case_region with the mode 'title' has run on a region
\* that holds upper-case characters, and said so
C29_Witness ==
    /\ pc = "post" /\ cur = Invocation("sbp_case_region", [mode |-> "title"])
    /\ text[1] = upper(1) /\ sel = <<<<0, 2>>>> /\ status = "Unknown Mode"

-----------------------------------------------------------------------------
(* The claims about sbp_center_view.                                       *)

\* C30 as claimed: without a prefix argument, a run that finds the
\* selection of the run before steps the scroll type center, top, bottom,
\* center, and a run that finds any other selection sets it to center.
C30_CycleResetsOnNewSelection ==
    center.seen # <<>> =>
        center.last_scroll_type =
            IF center.seen[1].sel = center.seen[1].sel_before
            THEN (center.seen[1].type_before + 1) % 3
            ELSE SCROLL_TYPES.CENTER

\* C30, amended: the run compares the first region of the selection only:
\* with the first region of the run before it steps the scroll type
\* center, top, bottom, center, with another first region it sets center.
C30_CycleResetsOnNewFirstRegion ==
    center.seen # <<>> =>
        /\ center.last_sel = <<center.seen[1].sel[1]>>
        /\ center.last_scroll_type =
              IF center.seen[1].sel_before # <<>>
                   /\ center.seen[1].sel[1] = center.seen[1].sel_before[1]
              THEN (center.seen[1].type_before + 1) % 3
              ELSE SCROLL_TYPES.CENTER

\* C30, witness: a second cursor came between two runs, the first cursor
\* stayed, and the scroll type went on from top to bottom
C30_Witness ==
    /\ center.seen # <<>> /\ pc = "post" /\ cur.cmd = "sbp_center_view"
    /\ center.seen[1].sel = <<<<0, 0>>, <<2, 2>>>>
    /\ center.seen[1].sel_before = <<<<0, 0>>>>
    /\ center.seen[1].type_before = SCROLL_TYPES.TOP
    /\ center.last_scroll_type = SCROLL_TYPES.BOTTOM /\ center.shown = "bottom"

-----------------------------------------------------------------------------
(* sbp_close_older_views.                                                  *)

\* the last command on the views was sbp_close_older_views
ClosedOlder == win.seen.op = "sbp_close_older_views"

\* the first n elements of a sequence s from its end, last first, that
\* satisfy no test but being clean in the window the command found
RECURSIVE CleanFromEnd(_, _, _)
CleanFromEnd(s, dirty_ids, n) ==
    IF n <= 0 \/ s = <<>> THEN <<>>
    ELSE LET id == s[Len(s)]
             front == SubSeq(s, 1, Len(s) - 1)
         IN IF id \in dirty_ids THEN CleanFromEnd(front, dirty_ids, n)
            ELSE <<id>> \o CleanFromEnd(front, dirty_ids, n - 1)

\* the ids of the dirty views the command found
SeenDirty ==
    {win.seen.views[i].id : i \in {j \in 1..Len(win.seen.views) :
                                      win.seen.views[j].buffer \in win.seen.dirty}}

\* C31: sbp_close_older_views ends after at most one round for each view
\* it found; it closes at most n_windows views, and these are the clean
\* views met first from the least recently touched end of the order, the
\* view touched last left out; it closes no dirty view; it leaves a view
\* open
C31_CloseOlderBounded ==
    ClosedOlder =>
        /\ win.seen.rounds <= Len(win.seen.touched)
        /\ Len(win.seen.closed) <= Max2(win.seen.n, 0)
        /\ win.seen.closed
             = CleanFromEnd(Tail(win.seen.touched), SeenDirty, win.seen.n)
        /\ \A i \in 1..Len(win.seen.closed) : win.seen.closed[i] \notin SeenDirty
        /\ Len(win.views) >= 1
        /\ ViewIds(win) = {win.seen.views[i].id : i \in 1..Len(win.seen.views)}
                            \ {win.seen.closed[i] : i \in 1..Len(win.seen.closed)}

\* a dirty view at the old end was passed over, a clean one closed, and
\* n_windows would have allowed more
C31_Witness ==
    /\ ClosedOlder
    /\ win.seen.n = 2
    /\ Len(win.seen.touched) = 3
    /\ win.seen.touched[3] \in SeenDirty
    /\ Len(win.seen.closed) = 1
    /\ Len(win.views) = 2

-----------------------------------------------------------------------------
(* dedup_views.                                                            *)

\* the last event of the window was a callback that ran dedup_views
Deduped == win.seen.op = "dedup_views"

\* the views the last command on the views closed
Closed == {win.seen.closed[i] : i \in 1..Len(win.seen.closed)}

\* C32: after dedup_views no group has two clean views of one buffer, no
\* dirty view was closed, and the view that was active in a group before
\* is still open
C32_DedupKeepsActiveAndDirty ==
    Deduped =>
        /\ \A i, j \in 1..Len(win.views) :
              (/\ i # j
               /\ win.views[i].group = win.views[j].group
               /\ win.views[i].buffer = win.views[j].buffer)
              => win.views[i].buffer \in win.dirty
        /\ Closed \cap SeenDirty = {}
        /\ \A g \in 0..(MaxGroups - 1) :
              win.seen.focus[g] # 0 => win.seen.focus[g] \in ViewIds(win)
        /\ ViewIds(win) = {win.seen.views[i].id : i \in 1..Len(win.seen.views)} \ Closed

\* of three views the first two showed one buffer in one group, the
\* second of them active: the first was closed in its place
C32_Witness ==
    /\ Deduped
    /\ Len(win.seen.views) = 3
    /\ win.seen.views[1].buffer = win.seen.views[2].buffer
    /\ win.seen.views[1].group = win.seen.views[2].group
    /\ win.seen.focus[win.seen.views[2].group] = 2
    /\ win.seen.closed = <<1>>
    /\ 2 \in ViewIds(win)

-----------------------------------------------------------------------------
(* The dedup after a save.                                                 *)

\* this step ran dedup_views
DedupRan == win'.seen.dedups = win.seen.dedups + 1

\* C33: pending_dedups is the number of callbacks of on_post_save that are
\* scheduled and have not fired, and is never negative; dedup_views runs
\* only in a callback that finds no other callback outstanding; so the
\* saves from one with no callback outstanding to the callback that leaves
\* none outstanding cause one dedup, run by that callback
C33_DedupDebounced ==
    [][/\ win'.pending_dedups = win'.callbacks
       /\ win'.pending_dedups >= 0
       /\ DedupRan => (win'.note.kind = "doit" /\ win.callbacks = 1)
       /\ win'.callbacks > 0 => win'.seen.dedups = 0
       /\ (win.callbacks > 0 /\ win'.callbacks = 0) => (DedupRan /\ win'.seen.dedups = 1)
      ]_vars

\* two saves, then the first callback has fired and has left the dedup to
\* the second
C33_Witness ==
    /\ win.note.kind = "doit"
    /\ win.callbacks = 1
    /\ win.pending_dedups = 1
    /\ win.seen.dedups = 0

-----------------------------------------------------------------------------
(* sbp_do_times and its timer.                                             *)

\* n runs of the command inv
Runs(inv, n) == [i \in 1..n |-> inv]

\* the command sbp_do_times repeats, as its arguments give it
Repeatee(args) == Invocation(args["cmd"], Without(args, {"cmd", "_times"}))

\* C34: sbp_do_times of undo or redo has run the command not once when it
\* returns and has left one callback, and that callback runs it _times
\* times when it fires; of any other command it has run the command
\* _times times when it returns and has left no callback
C34_UndoRedoRepeatLater ==
    [][/\ (pc = "exec" /\ pc' = "post" /\ cur.cmd = "sbp_do_times") =>
             IF cur.args["cmd"] \in {"undo", "redo"}
             THEN /\ ran' = <<>>
                  /\ timers' = Append(timers, [inv |-> Repeatee(cur.args),
                                               times |-> cur.args["_times"]])
             ELSE /\ ran' = Runs(Repeatee(cur.args), cur.args["_times"])
                  /\ timers' = timers
       /\ (timers # <<>> /\ timers' = Tail(timers)) =>
             /\ timer_ran' = Runs(Head(timers).inv, Head(timers).times)
             /\ ran' = ran
      ]_vars

\* undo with the prefix argument 3: the command has returned, nothing had
\* run by then, and the callback has run undo three times
C34_Witness ==
    /\ orig.cmd = "undo"
    /\ cur.cmd = "sbp_do_times"
    /\ pc = "idle"
    /\ ran = <<>>
    /\ timers = <<>>
    /\ timer_ran = Runs(Invocation("undo", NoArgs), 3)

-----------------------------------------------------------------------------
(* Buffer modifications.                                                   *)

\* this step told the handlers of a modification of the buffer of TheView:
\* the text changed, or the host reported a change made outside a command
ModifiedNow ==
    \/ text' # text
    \/ /\ win'.tick # win.tick
       /\ win'.note = [kind |-> "modified", view |-> TheView, widget |-> FALSE]

\* C35: after a buffer-modified notification active mark mode is off and
\* this_cmd is None
C35_ModifiedClearsMarkAndCmd ==
    [][ModifiedNow => (~vs'.active_mark /\ vs'.this_cmd = None)]_vars

\* a toggle had turned active mark mode on, then the buffer was modified
\* from outside a command
C35_Witness ==
    /\ win.note = [kind |-> "modified", view |-> TheView, widget |-> FALSE]
    /\ pc = "idle"
    /\ cur.cmd = "sbp_swap_point_and_mark"
    /\ ~pre.active_mark
    /\ ~vs.active_mark
    /\ vs.this_cmd = None

-----------------------------------------------------------------------------
(* The pairing of the cursors at Finish.                                   *)

\* the kill regions, of those finish formed, that end or begin where the
\* snapshotted cursor c was
RegionsOf(c) ==
    {j \in 1..Len(kill[1].regions) :
        \/ Begin(kill[1].regions[j]) = Begin(c)
        \/ End(kill[1].regions[j]) = End(c)}

\* C36: finish forms as many kill regions as cursors were snapshotted, and
\* every snapshotted cursor is an endpoint of exactly one of them, also
\* when the motion left fewer cursors than were snapshotted
C36_OneRegionPerSnapshottedCursor ==
    kill # <<>> =>
        /\ Len(kill[1].regions) = Len(kill[1].orig)
        /\ \A i \in 1..Len(kill[1].orig) : Cardinality(RegionsOf(kill[1].orig[i])) = 1

-----------------------------------------------------------------------------
(* sbp_yank.                                                               *)

\* C37: sbp_yank with pop # 0, the command before not being sbp_yank,
\* leaves the text, the cursors, the mark ring and the kill ring with its
\* current position as they were and sets a status message
C37_PopWithoutYankChangesNothing ==
    [][(/\ pc = "exec" /\ pc' = "post"
        /\ cur.cmd = "sbp_yank"
        /\ Get(cur.args, "pop", 0) # 0
        /\ vs.last_cmd # "sbp_yank")
       => (/\ text' = text
           /\ sel' = sel
           /\ vs'.mark_ring = vs.mark_ring
           /\ kill_index' = kill_index
           /\ kill_ring' = kill_ring
           /\ status' = "Previous command was not yank!")]_vars

\* a pop after sbp_set_mark: there were a mark and two entries to go
\* through, and the command only left its message
C37_Witness ==
    /\ pc = "post"
    /\ cur = Invocation("sbp_yank", [pop |-> 1])
    /\ pre.last_cmd = "sbp_set_mark"
    /\ vs.mark_ring # <<>>
    /\ Len(kill_ring) = 2
    /\ status = "Previous command was not yank!"

-----------------------------------------------------------------------------
(* sbp_kill_region.                                                        *)

\* this step runs sbp_kill_region
KillsRegion == pc = "exec" /\ pc' = "post" /\ cur.cmd = "sbp_kill_region"

\* C38: with regions sbp_kill_region adds their text to the kill ring
\* once, forward and not joined, and leaves active mark mode off; as a copy
\* it leaves the text as it was, otherwise the text is the old one without
\* the regions; without a region the text, the kill ring and active mark
\* mode stay as they were
C38_KillRegionFrame ==
    [][KillsRegion =>
         IF has_regions(vs)
         THEN LET regions == get_regions(vs, sel)
              IN /\ kill_ring' = Append(kill_ring,
                        [regions |-> [i \in 1..Len(regions) |-> Substr(text, regions[i])],
                         forward |-> TRUE, join |-> FALSE])
                 /\ ~vs'.active_mark
                 /\ text' = IF Get(cur.args, "is_copy", FALSE) THEN text
                            ELSE TextOutside(text, regions)
         ELSE /\ text' = text
              /\ kill_ring' = kill_ring
              /\ vs'.active_mark = vs.active_mark
      ]_vars

====
